---- MODULE Spec2Model ----
(***************************************************************************)
(* Model of SoundSourceFFmpeg (src/sources/soundsourceffmpeg.cpp): the     *)
(* time/index mapper, the open sequence, the seek policy and the packet /  *)
(* frame pump of readSampleFramesClamped over a read-ahead frame buffer.   *)
(* The codec backend (demuxer, decoder, resampler) is the environment.     *)
(***************************************************************************)
EXTENDS Integers, Sequences, FiniteSets, TLC

(***************************************************************************)
(* Bounds of the model                                                     *)
(***************************************************************************)
\* number of codec frames the stream's duration stands for
NumCodecFrames == 3
\* most consecutive EAGAIN answers of avcodec_send_packet to one packet
MaxSendAgain == 1
\* largest frame index / timestamp offset tried by the mapper specification
MaxMapIndex == 6
\* threads that construct providers, providers each thread constructs
NumThreads == 2
MaxProviders == 2
\* most demuxers registered in the backend
MaxDemuxers == 2

(***************************************************************************)
(* Constants of the program and of the backend                             *)
(***************************************************************************)
kavStreamDefaultStartTime == 0
kavStreamDecoderDelayAAC == 2112
kMinFrameIndex == 0
kSamplesPerMP3Frame == 1152
kMaxDecodedFramesPerPacket == 4
kavChannelLayoutUndefined == 0
\* AV_NOPTS_VALUE: the backend's "no timestamp" sentinel (the smallest value)
AV_NOPTS_VALUE == -1000000
\* ReadAheadFrameBuffer's sentinels: the smallest and the largest index
kInvalidFrameIndex == -100000
kUnknownFrameIndex == 100000

Max2(a, b) == IF a >= b THEN a ELSE b
Min2(a, b) == IF a <= b THEN a ELSE b

(***************************************************************************)
(* IndexRange: a pair <<start, end>>, half-open, with an orientation       *)
(***************************************************************************)
RangeBetween(a, b) == <<a, b>>
RangeForward(a, n) == <<a, a + n>>
RangeStart(r) == r[1]
RangeEnd(r) == r[2]
RangeEmpty(r) == r[1] = r[2]
RangeIsForward(r) == r[1] < r[2]
RangeIsBackward(r) == r[1] > r[2]
RangeLength(r) == IF r[1] <= r[2] THEN r[2] - r[1] ELSE r[1] - r[2]
RangeShrinkFront(r, n) == IF r[1] <= r[2] THEN <<r[1] + n, r[2]>> ELSE <<r[1] - n, r[2]>>
RangeShrinkBack(r, n) == IF r[1] <= r[2] THEN <<r[1], r[2] - n>> ELSE <<r[1], r[2] + n>>
RangeContainsIndex(r, i) == r[1] <= i /\ i < r[2]
\* the intersection of two forward or empty ranges; the default range if none
RangeIntersect(a, b) ==
    IF a[1] <= a[2] /\ b[1] <= b[2] /\ Max2(a[1], b[1]) <= Min2(a[2], b[2])
    THEN <<Max2(a[1], b[1]), Min2(a[2], b[2])>>
    ELSE <<0, 0>>
\* is range a inside range b (an empty range is inside every range)
RangeWithin(a, b) == RangeEmpty(a) \/ (b[1] <= a[1] /\ a[1] <= a[2] /\ a[2] <= b[2])

(***************************************************************************)
(* A. Time / index mapper                                                  *)
(***************************************************************************)
\* av_rescale_q(a, bq, cq) = a * bq / cq rounded to nearest, halves away
\* from zero; bn/bd and cn/cd are the two rationals
AvRescaleQ(a, bn, bd, cn, cd) ==
    LET b == bn * cd
        c == cn * bd
    IN  IF a >= 0 THEN (a * b + (c \div 2)) \div c
                  ELSE -(((-a) * b + (c \div 2)) \div c)

IsAAC(st) == st.codec_id \in {"AAC", "AAC_LATM"}
IsMP3(st) == st.codec_id \in {"MP3", "MP3ON4"}

\* a start time without the decoder delay of AAC
GetStreamStartTimeNoDelay(st) ==
    IF st.start_time = AV_NOPTS_VALUE THEN kavStreamDefaultStartTime ELSE st.start_time

GetStreamStartTime(st) ==
    IF st.start_time = AV_NOPTS_VALUE
    THEN IF IsAAC(st)
         THEN Max2(kavStreamDefaultStartTime, kavStreamDecoderDelayAAC)
         ELSE kavStreamDefaultStartTime
    ELSE st.start_time

GetStreamEndTime(st) ==
    IF ~(GetStreamStartTime(st) <= st.duration)
    THEN GetStreamStartTime(st)
    ELSE st.duration

ConvertStreamTimeToFrameIndexNoStart(st, pts) ==
    kMinFrameIndex + AvRescaleQ(pts, st.tbNum, st.tbDen, 1, st.sample_rate)

ConvertStreamTimeToFrameIndex(st, pts) ==
    kMinFrameIndex +
        AvRescaleQ(pts - GetStreamStartTime(st), st.tbNum, st.tbDen, 1, st.sample_rate)

ConvertFrameIndexToStreamTimeNoStart(st, frameIndex) ==
    AvRescaleQ(frameIndex - kMinFrameIndex, 1, st.sample_rate, st.tbNum, st.tbDen)

ConvertFrameIndexToStreamTime(st, frameIndex) ==
    GetStreamStartTime(st) +
        AvRescaleQ(frameIndex - kMinFrameIndex, 1, st.sample_rate, st.tbNum, st.tbDen)

GetStreamFrameIndexRange(st) ==
    RangeBetween(
        ConvertStreamTimeToFrameIndex(st, GetStreamStartTime(st)),
        ConvertStreamTimeToFrameIndex(st, GetStreamEndTime(st)))

(***************************************************************************)
(* B. Seek preroll policy                                                  *)
(***************************************************************************)
\* a preroll that is the backend's value for every codec
GetStreamSeekPrerollFrameCountDefault(st) == st.seek_preroll

GetStreamSeekPrerollFrameCount(st) ==
    IF IsMP3(st)
    THEN Max2(9 * (kSamplesPerMP3Frame \div st.channels), st.seek_preroll)
    ELSE IF IsAAC(st)
         THEN Max2(kavStreamDecoderDelayAAC, st.seek_preroll)
         ELSE st.seek_preroll

av_get_default_channel_layout(channels) ==
    IF channels = 1 THEN 4 ELSE IF channels = 2 THEN 3 ELSE 0

GetStreamChannelLayout(st) ==
    IF st.channel_layout = kavChannelLayoutUndefined
    THEN av_get_default_channel_layout(st.channels)
    ELSE st.channel_layout

(***************************************************************************)
(* D. Read-ahead frame buffer: [firstFrame, buf], buf the buffered samples *)
(* of the frames firstFrame, firstFrame + 1, ...                           *)
(***************************************************************************)
FbIsValid(fb) == fb.firstFrame # kInvalidFrameIndex
FbIsReady(fb) == FbIsValid(fb) /\ fb.firstFrame # kUnknownFrameIndex
FbIsEmpty(fb) == fb.buf = <<>>
FbFirstFrame(fb) == fb.firstFrame
FbBufferedFrameRange(fb) == RangeForward(fb.firstFrame, Len(fb.buf))
FbReset(i) == [firstFrame |-> i, buf |-> <<>>]
FbResetUnknown == FbReset(kUnknownFrameIndex)
FbInvalidate == FbReset(kInvalidFrameIndex)
FbReinit == FbResetUnknown

DropFirst(q, n) == SubSeq(q, n + 1, Len(q))
TakeFirst(q, n) == SubSeq(q, 1, n)

\* trySeekToFirstFrame: <<found, buffer>>
FbTrySeekToFirstFrame(fb, i) ==
    IF FbIsReady(fb) /\ RangeContainsIndex(FbBufferedFrameRange(fb), i)
    THEN <<TRUE, [firstFrame |-> i, buf |-> DropFirst(fb.buf, i - fb.firstFrame)]>>
    ELSE <<FALSE, fb>>

\* discardAllBufferedFrames: the position moves behind the discarded frames
FbDiscardAllBufferedFrames(fb) ==
    [firstFrame |-> fb.firstFrame + Len(fb.buf), buf |-> <<>>]

\* discardLastBufferedFrames: <<number of frames discarded, buffer>>
FbDiscardLastBufferedFrames(fb, n) ==
    LET cnt == Min2(Max2(n, 0), Len(fb.buf))
    IN  <<cnt, [fb EXCEPT !.buf = TakeFirst(fb.buf, Len(fb.buf) - cnt)]>>

\* consumeBufferedFrames for the writable range wr:
\* <<samples moved to the output, buffer>>; the frames buffered before
\* wr's start are dropped, the head that lies in wr is handed out
FbConsumeBufferedFrames(fb, wr) ==
    IF FbIsReady(fb) /\ ~FbIsEmpty(fb) /\ RangeIsForward(wr)
            /\ RangeContainsIndex(FbBufferedFrameRange(fb), RangeStart(wr))
    THEN LET skip == RangeStart(wr) - fb.firstFrame
             rest == DropFirst(fb.buf, skip)
             n == Min2(Len(rest), RangeLength(wr))
         IN  <<TakeFirst(rest, n),
               [firstFrame |-> RangeStart(wr) + n, buf |-> DropFirst(rest, n)]>>
    ELSE <<<<>>, fb>>

Zeros(n) == [j \in 1..n |-> 0]

\* bufferFrames(FillGapWithSilence, range r with its samples):
\* <<range that could not be buffered, buffer>>
FbBufferFrames(fb, r, samples) ==
    IF ~FbIsReady(fb) \/ ~RangeIsForward(r)
    THEN <<r, fb>>
    ELSE LET end == fb.firstFrame + Len(fb.buf)
         IN  IF RangeStart(r) < end
             THEN <<r, fb>>
             ELSE <<RangeBetween(RangeEnd(r), RangeEnd(r)),
                    [fb EXCEPT !.buf = fb.buf \o Zeros(RangeStart(r) - end) \o samples]>>

(***************************************************************************)
(* The codec backend (environment): a media file is a record of stream     *)
(* attributes and the packets of the demuxer; a packet decodes to frames   *)
(* [pts, nb_samples, data]                                                 *)
(***************************************************************************)
\* the value of the decoded sample of stream frame i (0 is silence)
SampleVal(i) == i + 10
\* the same sample in the stream's native sample format
RawSample(st, i) == IF st.sample_fmt = "FLT" THEN SampleVal(i) ELSE 2 * SampleVal(i)
\* the timestamp the demuxer gives to stream frame i of a file
TicksPerFrame(st) == st.tbDen \div (st.tbNum * st.sample_rate)
PtsOf(st, i) == st.start_time + i * TicksPerFrame(st)

MkFrame(st, start, n) ==
    [pts |-> PtsOf(st, start), nb_samples |-> n,
     data |-> [j \in 1..n |-> RawSample(st, start + j - 1)]]
MkPacket(st, frames) ==
    [stream_index |-> st.index, pts |-> frames[1].pts, size |-> Len(frames),
     frames |-> frames]
\* a packet of another stream of the file (cover art, video)
ForeignPacket(st) ==
    [stream_index |-> st.index + 1, pts |-> st.start_time, size |-> 1, frames |-> <<>>]
\* the packet of drain mode
FlushPacket(st) ==
    [stream_index |-> st.index, pts |-> AV_NOPTS_VALUE, size |-> 0, frames |-> <<>>]

\* avcodec_flush_buffers
AvcodecFlushBuffers(av) == [av EXCEPT !.decQ = <<>>, !.draining = FALSE]

\* av_seek_frame(.., AVSEEK_FLAG_BACKWARD): the last packet of the stream that
\* starts at or before the timestamp, the first packet if there is none
AvSeekFrame(av, st, pkts, ts) ==
    LET at == {k \in 1..Len(pkts) :
                  pkts[k].stream_index = st.index /\ pkts[k].pts <= ts}
        pos == IF at = {} THEN 1 ELSE CHOOSE k \in at : \A j \in at : j <= k
    IN  [av EXCEPT !.demux = pos]

\* avcodec_send_packet with the answer res of the decoder
AvcodecSendPacket(av, pkt, res) ==
    IF res = "ok"
    THEN IF pkt.size = 0
         THEN [av EXCEPT !.draining = TRUE]
         ELSE [av EXCEPT !.decQ = av.decQ \o pkt.frames]
    ELSE av

\* the answer of avcodec_send_packet when the decoder is not disturbed
SendAnswer(av) == IF av.draining THEN "err" ELSE "ok"

\* avcodec_receive_frame: <<code, frame, backend>>
AvcodecReceiveFrame(av, fault) ==
    IF fault THEN <<"err", <<>>, av>>
    ELSE IF av.decQ # <<>> THEN <<"frame", <<Head(av.decQ)>>, [av EXCEPT !.decQ = Tail(av.decQ)]>>
    ELSE IF av.draining THEN <<"EOF", <<>>, av>>
    ELSE <<"EAGAIN", <<>>, av>>

(***************************************************************************)
(* The media files of the pipeline specification                           *)
(***************************************************************************)
BaseStream(preroll, parFs, ctxFs, fmt) ==
    [codec_id |-> "PCM", start_time |-> 4, duration |-> 4 + 4 * NumCodecFrames,
     tbNum |-> 1, tbDen |-> 4, sample_rate |-> 2, channels |-> 2,
     channel_layout |-> 3, sample_fmt |-> fmt, bit_rate |-> 128000,
     frame_size |-> parFs, ctx_frame_size |-> ctxFs, seek_preroll |-> preroll,
     index |-> 0]

MkFile(name, st, pkts) == [name |-> name, stream |-> st, pkts |-> pkts]

PlainFile ==
    LET st == BaseStream(0, 2, 2, "FLT")
    IN  MkFile("plain", st,
            [k \in 1..NumCodecFrames |-> MkPacket(st, <<MkFrame(st, 2 * (k - 1), 2)>>)])
\* decoding starts one frame before the stream start and runs one frame over
LeadInFile ==
    LET st == BaseStream(1, 0, 0, "S16")
    IN  MkFile("leadin", st,
            [k \in 1..(NumCodecFrames + 1) |->
                MkPacket(st, <<MkFrame(st, 2 * (k - 1) - 1, 2)>>)])
\* the stream ends one codec frame before its duration
ShortFile ==
    LET st == BaseStream(2, 2, 2, "FLT")
    IN  MkFile("short", st,
            [k \in 1..(NumCodecFrames - 1) |->
                MkPacket(st, <<MkFrame(st, 2 * (k - 1), 2)>>)])
\* the first packet decodes to two frames, the second of which starts one
\* sample before the end of the first; the last frame runs over the stream end
OverlapFile ==
    LET st == BaseStream(0, 0, 0, "FLT")
    IN  MkFile("overlap", st,
            [k \in 1..NumCodecFrames |->
                MkPacket(st, IF k = 1 THEN <<MkFrame(st, 0, 2), MkFrame(st, 1, 2)>>
                                      ELSE <<MkFrame(st, 2 * k - 1, 2)>>)])
\* the first frame is one sample short
GapFile ==
    LET st == BaseStream(1, 0, 0, "S16")
    IN  MkFile("gap", st,
            [k \in 1..NumCodecFrames |->
                MkPacket(st, <<IF k = 1 THEN MkFrame(st, 0, 1)
                                        ELSE MkFrame(st, 2 * (k - 1), 2)>>)])
\* two frames per packet, packets of another stream in between, and the
\* last packet may run over the stream end
MultiFile ==
    LET st == BaseStream(0, 2, 2, "FLT")
        n == (NumCodecFrames + 1) \div 2
    IN  MkFile("multi", st,
            [k \in 1..(2 * n) |->
                IF k % 2 = 1 THEN ForeignPacket(st)
                ELSE MkPacket(st, <<MkFrame(st, 4 * ((k \div 2) - 1), 2),
                                    MkFrame(st, 4 * ((k \div 2) - 1) + 2, 2)>>)])

\* the opened decoder reports another frame size than the stream's parameters
MismatchFile ==
    LET st == BaseStream(0, 2, 3, "FLT")
    IN  MkFile("mismatch", st,
            [k \in 1..NumCodecFrames |-> MkPacket(st, <<MkFrame(st, 2 * (k - 1), 2)>>)])

\* the first packet decodes to a frame of three samples and then to a frame
\* of four that starts at the same index again
RewindFile ==
    LET st == BaseStream(0, 0, 0, "FLT")
    IN  MkFile("rewind", st,
            [k \in 1..(NumCodecFrames - 1) |->
                MkPacket(st, IF k = 1 THEN <<MkFrame(st, 0, 3), MkFrame(st, 0, 4)>>
                                      ELSE <<MkFrame(st, 2 * k, 2)>>)])

\* the stream's parameters report a frame size, the opened decoder reports 0
ZeroFile ==
    LET st == BaseStream(1, 2, 0, "FLT")
    IN  MkFile("zero", st,
            [k \in 1..NumCodecFrames |-> MkPacket(st, <<MkFrame(st, 2 * (k - 1), 2)>>)])

\* the decoder's timestamps jump: each packet decodes to two frames, the
\* second of which starts before the stream start, runs over the stream end
\* or starts behind it
JumpFile ==
    LET st == BaseStream(0, 0, 0, "FLT")
        total == 2 * NumCodecFrames
    IN  MkFile("jump", st,
            <<MkPacket(st, <<MkFrame(st, 0, 2), MkFrame(st, -1, 3)>>),
              MkPacket(st, <<MkFrame(st, 2, 2), MkFrame(st, total - 1, 3)>>),
              MkPacket(st, <<MkFrame(st, total - 2, 2), MkFrame(st, total + 1, 2)>>)>>)

PipelineFiles ==
    {PlainFile, LeadInFile, ShortFile, OverlapFile, GapFile, MultiFile, MismatchFile,
     RewindFile, JumpFile, ZeroFile}

(***************************************************************************)
(* State                                                                   *)
(***************************************************************************)
VARIABLES
    avFile,         \* the media file behind the session's URL (environment)
    src,            \* SoundSourceFFmpeg: handles and published properties
    m_frameBuffer,  \* SoundSourceFFmpeg::m_frameBuffer
    av,             \* backend state: demuxer position, decoder queue, drain mode
    pc,             \* position of the caller / of readSampleFramesClamped
    loc,            \* locals of the running readSampleFramesClamped call
    ret,            \* the value returned by the last call
    obs,            \* observations of the running call (backend calls made)
    seq,            \* the caller: how its last call ended; in a sequential pass
                    \* the next index and the frames got
    conv,           \* the last frame index converted to a timestamp and back
    provider        \* SoundSourceProviderFFmpeg: the backend's demuxers,
                    \* initFFmpegLibFlag, the constructing threads, the list
                    \* of extensions returned

vars == <<avFile, src, m_frameBuffer, av, pc, loc, ret, obs, seq, conv, provider>>

(***************************************************************************)
(* G. Session: tryOpen, initResampling, close                              *)
(***************************************************************************)
NewSource ==
    [openResult |-> "None", fmtCtx |-> FALSE, codecCtx |-> FALSE, swr |-> FALSE,
     decodedFrame |-> FALSE, resampledFrame |-> FALSE, stream |-> FALSE,
     channelCount |-> 0, sampleRate |-> 0, bitrate |-> 0,
     frameIndexRange |-> <<0, 0>>, seekPrerollFrameCount |-> 0,
     streamChannelLayout |-> 0, resampledChannelLayout |-> 0,
     requestChannelLayout |-> 0]

OpenFailPoints ==
    {"none", "open_input", "find_stream_info", "find_best_stream", "alloc_context",
     "parameters_to_context", "open_decoder", "swr_alloc", "swr_init",
     "init_channel_count", "init_sample_rate", "init_bitrate", "init_frame_range"}

\* a test that looks at the sample format only
NeedsResamplingFormatOnly(st) == "FLT" # st.sample_fmt

\* does initResampling need a resampler for this stream
NeedsResampling(st) ==
    \/ av_get_default_channel_layout(st.channels) # GetStreamChannelLayout(st)
    \/ "FLT" # st.sample_fmt

\* initResampling that does not look at the results of the resampler calls
InitResamplingNoCheck(s, st, failAt) ==
    <<TRUE, [s EXCEPT !.swr = NeedsResampling(st),
                      !.resampledFrame = NeedsResampling(st),
                      !.streamChannelLayout = GetStreamChannelLayout(st),
                      !.resampledChannelLayout =
                          av_get_default_channel_layout(st.channels)]>>

\* initResampling: <<success, source>>
InitResampling(s, st, failAt) ==
    IF NeedsResampling(st)
    THEN IF failAt = "swr_alloc" THEN <<FALSE, s>>
         ELSE IF failAt = "swr_init" THEN <<FALSE, [s EXCEPT !.swr = TRUE]>>
         ELSE <<TRUE, [s EXCEPT !.swr = TRUE, !.resampledFrame = TRUE,
                                !.streamChannelLayout = GetStreamChannelLayout(st),
                                !.resampledChannelLayout =
                                    av_get_default_channel_layout(st.channels)]>>
    ELSE <<TRUE, [s EXCEPT !.streamChannelLayout = GetStreamChannelLayout(st),
                           !.resampledChannelLayout =
                               av_get_default_channel_layout(st.channels)]>>

\* tryOpen on the stream st; failAt is the backend / host call that fails, req
\* the channel count of the open parameters (0: none requested)
TryOpenSource(s, st, failAt, req) ==
    IF failAt = "open_input" THEN [s EXCEPT !.openResult = "Failed"]
    ELSE LET s1 == [s EXCEPT !.fmtCtx = TRUE]
         IN
    IF failAt = "find_stream_info" THEN [s1 EXCEPT !.openResult = "Failed"]
    ELSE IF failAt \in {"find_best_stream", "alloc_context", "parameters_to_context"}
    THEN [s1 EXCEPT !.openResult = "Aborted"]
    ELSE IF failAt = "open_decoder" THEN [s1 EXCEPT !.openResult = "Failed"]
    ELSE LET s2 == [s1 EXCEPT !.codecCtx = TRUE, !.stream = TRUE,
                              !.requestChannelLayout =
                                  IF req > 0 THEN av_get_default_channel_layout(req)
                                             ELSE @]
             rs == InitResampling(s2, st, failAt)
             s3 == rs[2]
         IN
    IF ~rs[1] THEN [s3 EXCEPT !.openResult = "Failed"]
    ELSE IF failAt = "init_channel_count" THEN [s3 EXCEPT !.openResult = "Aborted"]
    ELSE LET s4 == [s3 EXCEPT !.channelCount = st.channels]
         IN
    IF failAt = "init_sample_rate" THEN [s4 EXCEPT !.openResult = "Aborted"]
    ELSE LET s5 == [s4 EXCEPT !.sampleRate = st.sample_rate]
             kbps == st.bit_rate \div 1000
         IN
    IF kbps > 0 /\ failAt = "init_bitrate" THEN [s5 EXCEPT !.openResult = "Failed"]
    ELSE LET s6 == IF kbps > 0 THEN [s5 EXCEPT !.bitrate = kbps] ELSE s5
         IN
    IF st.duration = AV_NOPTS_VALUE THEN [s6 EXCEPT !.openResult = "Failed"]
    ELSE LET sr == GetStreamFrameIndexRange(st)
         IN
    IF ~(RangeStart(sr) <= RangeEnd(sr)) THEN [s6 EXCEPT !.openResult = "Failed"]
    ELSE IF failAt = "init_frame_range" THEN [s6 EXCEPT !.openResult = "Failed"]
    ELSE [s6 EXCEPT !.frameIndexRange = RangeForward(kMinFrameIndex, RangeLength(sr)),
                    !.decodedFrame = TRUE,
                    !.seekPrerollFrameCount = GetStreamSeekPrerollFrameCount(st),
                    !.openResult = "Succeeded"]

\* the order in which close visits the handles
CloseOrder == <<"resampledFrame", "decodedFrame", "swr", "codecCtx", "fmtCtx">>

\* a close that hands every handle to its free function, null or not
ReleasedUnguarded(s) == CloseOrder

\* the handles close passes to the backend's free functions, in order:
\* av_frame_free does nothing for a null frame, the holders' close test for
\* null
Released(s) == SelectSeq(CloseOrder, LAMBDA h : s[h])

CloseSource(s) ==
    [s EXCEPT !.resampledFrame = FALSE, !.decodedFrame = FALSE, !.swr = FALSE,
              !.codecCtx = FALSE, !.fmtCtx = FALSE]

FrameIndexRange == src.frameIndexRange

(***************************************************************************)
(* Seek: adjustCurrentPosition                                             *)
(***************************************************************************)
\* the codec frame size divides although only the stream's frame size was tested
SeekDividesByZero(parFs, ctxFs) == parFs > 0 /\ ctxFs = 0

SeekFrameIndex(startIndex, preroll, parFs, ctxFs) ==
    LET target == Max2(kMinFrameIndex, startIndex - preroll)
    IN  IF parFs > 0 /\ ctxFs # 0
        THEN target - ((target - kMinFrameIndex) % ctxFs)
        ELSE target

\* the value of seekFrameIndex on a build whose remainder by zero does not
\* trap but yields the dividend
SeekFrameIndexRemByZero(startIndex, preroll) ==
    LET target == Max2(kMinFrameIndex, startIndex - preroll)
    IN  target - (target - kMinFrameIndex)

\* what a remainder by zero (undefined behaviour) does on the builds of the
\* program: the division instruction traps, or it yields 0 and the remainder
\* is the dividend
RemByZeroOutcomes(st) ==
    IF SeekDividesByZero(st.frame_size, st.ctx_frame_size) THEN {"trap", "dividend"}
                                                           ELSE {"trap"}

\* must the decoder be flushed and the demuxer be repositioned
NeedsBackendSeekNever(fb, startIndex, seekFrameIndex) == FALSE

NeedsBackendSeekAlways(fb, startIndex, seekFrameIndex) == TRUE

NeedsBackendSeek(fb, startIndex, seekFrameIndex) ==
    \/ ~FbIsValid(fb)
    \/ FbFirstFrame(fb) > startIndex
    \/ FbFirstFrame(fb) < seekFrameIndex

ShortSeekNever(fb, startIndex) == FALSE

\* is the start index served from the buffer, without touching the backend
ShortSeek(fb, startIndex) == FbIsReady(fb) /\ FbTrySeekToFirstFrame(fb, startIndex)[1]

\* adjustCurrentPosition(startIndex); seekOk is the answer of av_seek_frame
AdjustCurrentPosition(fb, bk, file, s, startIndex, seekOk) ==
    LET st == file.stream
        try == FbTrySeekToFirstFrame(fb, startIndex)
        fb1 == IF FbIsReady(fb) THEN FbDiscardAllBufferedFrames(fb) ELSE fb
        divZero == SeekDividesByZero(st.frame_size, st.ctx_frame_size)
        seekFrameIndex ==
            IF divZero
            THEN SeekFrameIndexRemByZero(startIndex, s.seekPrerollFrameCount)
            ELSE SeekFrameIndex(startIndex, s.seekPrerollFrameCount,
                                st.frame_size, st.ctx_frame_size)
        bk1 == AvSeekFrame(AvcodecFlushBuffers(bk), st, file.pkts,
                           ConvertFrameIndexToStreamTime(st, seekFrameIndex))
        none == [ok |-> TRUE, crash |-> FALSE, fb |-> fb, bk |-> bk,
                 short |-> FALSE, flushed |-> FALSE, seeked |-> FALSE,
                 target |-> startIndex, calls |-> <<>>, divZero |-> FALSE]
        idle == [none EXCEPT !.divZero = divZero]
    IN  IF ShortSeek(fb, startIndex)
        THEN [none EXCEPT !.fb = try[2], !.short = TRUE]
        ELSE IF divZero /\ bk.remByZero = "trap"
        THEN [idle EXCEPT !.ok = FALSE, !.crash = TRUE, !.fb = fb1]
        ELSE IF NeedsBackendSeek(fb1, startIndex, seekFrameIndex)
        THEN IF seekOk
             THEN [idle EXCEPT !.fb = FbResetUnknown, !.bk = bk1, !.flushed = TRUE,
                               !.seeked = TRUE, !.target = seekFrameIndex,
                               !.calls = <<"avcodec_flush_buffers", "av_seek_frame">>]
             ELSE [idle EXCEPT !.ok = FALSE, !.fb = FbInvalidate,
                               !.bk = AvcodecFlushBuffers(bk), !.flushed = TRUE,
                               !.seeked = TRUE, !.target = seekFrameIndex,
                               !.calls = <<"avcodec_flush_buffers", "av_seek_frame">>]
        ELSE [idle EXCEPT !.fb = FbResetUnknown, !.target = seekFrameIndex]

(***************************************************************************)
(* E. Packet pump: readNextPacket, consumeNextAVPacket                     *)
(***************************************************************************)
\* readNextPacket: [idx, pkt, demux]; readOk is the answer of av_read_frame
\* (other than EOF)
\* a readNextPacket over a demuxer that does not move on: it returns the same
\* packet of the selected stream again and again
ReadNextPacketStuck(file, demux, flushFrameIndex, readOk) ==
    LET st == file.stream
        mine == {k \in demux..Len(file.pkts) : file.pkts[k].stream_index = st.index}
        k == CHOOSE j \in mine : \A i \in mine : j <= i
    IN  IF ~readOk
        THEN [idx |-> kInvalidFrameIndex, pkt |-> <<>>, demux |-> demux]
        ELSE IF mine = {}
        THEN [idx |-> flushFrameIndex, pkt |-> <<FlushPacket(st)>>,
              demux |-> Len(file.pkts) + 1]
        ELSE [idx |-> IF file.pkts[k].pts # AV_NOPTS_VALUE
                      THEN ConvertStreamTimeToFrameIndex(st, file.pkts[k].pts)
                      ELSE kUnknownFrameIndex,
              pkt |-> <<file.pkts[k]>>, demux |-> demux]

\* a readNextPacket that returns the next packet of whatever stream
ReadNextPacketAny(file, demux, flushFrameIndex, readOk) ==
    LET st == file.stream
    IN  IF ~readOk
        THEN [idx |-> kInvalidFrameIndex, pkt |-> <<>>, demux |-> demux]
        ELSE IF demux > Len(file.pkts)
        THEN [idx |-> flushFrameIndex, pkt |-> <<FlushPacket(st)>>,
              demux |-> Len(file.pkts) + 1]
        ELSE [idx |-> ConvertStreamTimeToFrameIndex(st, file.pkts[demux].pts),
              pkt |-> <<file.pkts[demux]>>, demux |-> demux + 1]

ReadNextPacket(file, demux, flushFrameIndex, readOk) ==
    LET st == file.stream
        mine == {k \in demux..Len(file.pkts) : file.pkts[k].stream_index = st.index}
        k == CHOOSE j \in mine : \A i \in mine : j <= i
    IN  IF ~readOk
        THEN [idx |-> kInvalidFrameIndex, pkt |-> <<>>, demux |-> demux]
        ELSE IF mine = {}
        THEN [idx |-> flushFrameIndex, pkt |-> <<FlushPacket(st)>>,
              demux |-> Len(file.pkts) + 1]
        ELSE [idx |-> IF file.pkts[k].pts # AV_NOPTS_VALUE
                      THEN ConvertStreamTimeToFrameIndex(st, file.pkts[k].pts)
                      ELSE kUnknownFrameIndex,
              pkt |-> <<file.pkts[k]>>, demux |-> k + 1]

PacketDropped(pkt, sendAns) == <<>>

\* *ppavNextPacket after avcodec_send_packet answered sendAns to pkt
PacketKept(pkt, sendAns) == IF sendAns = "again" THEN pkt ELSE <<>>

\* consumeNextAVPacket(&avPacket, &pavNextPacket):
\* [ok, fb, bk, nextPkt, read, sent, res]; sendAns is the decoder's answer
ConsumeNextAVPacket(fb, bk, file, nextPkt, readOk, sendAns) ==
    LET rp == ReadNextPacket(file, bk.demux, FbFirstFrame(fb), readOk)
        doRead == nextPkt = <<>>
        pkt == IF doRead THEN rp.pkt ELSE nextPkt
        bk1 == IF doRead THEN [bk EXCEPT !.demux = rp.demux] ELSE bk
    IN  IF doRead /\ rp.idx = kInvalidFrameIndex
        THEN [ok |-> FALSE, fb |-> FbInvalidate, bk |-> bk1, nextPkt |-> <<>>,
              read |-> TRUE, sent |-> <<>>, res |-> "none"]
        ELSE IF sendAns = "ok"
        THEN [ok |-> TRUE, fb |-> fb, bk |-> AvcodecSendPacket(bk1, pkt[1], "ok"),
              nextPkt |-> PacketKept(pkt, sendAns), read |-> doRead, sent |-> pkt,
              res |-> "ok"]
        ELSE IF sendAns = "again"
        THEN [ok |-> TRUE, fb |-> fb, bk |-> bk1, nextPkt |-> PacketKept(pkt, sendAns),
              read |-> doRead, sent |-> pkt, res |-> "again"]
        ELSE [ok |-> FALSE, fb |-> FbInvalidate, bk |-> bk1,
              nextPkt |-> PacketKept(pkt, sendAns), read |-> doRead, sent |-> pkt,
              res |-> "err"]

(***************************************************************************)
(* C. Resampler: resampleDecodedAVFrame                                    *)
(***************************************************************************)
\* swr_convert_frame to float samples
SwrConvert(data) == [j \in 1..Len(data) |-> data[j] \div 2]

\* <<data or null, samples>>
ResampleDecodedAVFrame(s, frame, swrOk) ==
    IF s.swr
    THEN IF swrOk THEN <<TRUE, SwrConvert(frame.data)>> ELSE <<FALSE, <<>>>>
    ELSE <<TRUE, frame.data>>

(***************************************************************************)
(* F. Frame pump: the body of the receive loop of readSampleFramesClamped  *)
(***************************************************************************)
\* the caller's buffer before anything is written to it
Untouched(n) == [j \in 1..n |-> -1]

\* write vals at the output position (pOutputSampleBuffer) and advance it;
\* a write outside the caller's buffer is recorded in oob
WriteOut(l, vals) ==
    LET n == Len(vals)
    IN  [l EXCEPT
            !.out = [j \in 1..Len(l.out) |->
                        IF j - 1 >= l.outPos /\ j - 1 < l.outPos + n
                        THEN vals[j - l.outPos] ELSE l.out[j]],
            !.oob = l.oob \/ (n > 0 /\ (l.outPos < 0 \/ l.outPos + n > Len(l.out))),
            !.outPos = l.outPos + n]

\* the decoded frame starts before readFrameIndex: rewind (lines 1059-1105)
\* a rewind that takes everything back from the output
RewindOverlapOutputOnly(fb, l, dStart) ==
    LET overlapRange == RangeBetween(dStart, l.rfi)
        consumedRange == RangeBetween(l.consumeStart, Max2(l.rfi, l.consumeStart))
        rewindRange == RangeIntersect(overlapRange, consumedRange)
    IN  IF ~(dStart < l.rfi) THEN <<fb, l>>
        ELSE IF RangeEmpty(rewindRange) THEN <<fb, [l EXCEPT !.rfi = dStart]>>
        ELSE <<fb, [l EXCEPT !.outPos = l.outPos - RangeLength(rewindRange),
                             !.wr = RangeBetween(RangeStart(rewindRange), RangeEnd(l.wr)),
                             !.rfi = dStart]>>

\* a rewind over the whole overlap, consumed by this call or not
RewindOverlapWhole(fb, l, dStart) ==
    LET rewindRange == RangeBetween(dStart, l.rfi)
        dl == FbDiscardLastBufferedFrames(fb, RangeLength(rewindRange))
        rest == RangeShrinkBack(rewindRange, dl[1])
    IN  IF ~(dStart < l.rfi) THEN <<fb, l>>
        ELSE <<dl[2], [l EXCEPT !.outPos = l.outPos - RangeLength(rest),
                                !.wr = RangeBetween(RangeStart(rest), RangeEnd(l.wr)),
                                !.rfi = dStart]>>

RewindOverlap(fb, l, dStart) ==
    LET overlapRange == RangeBetween(dStart, l.rfi)
        consumedRange == RangeBetween(l.consumeStart, Max2(l.rfi, l.consumeStart))
        rewindRange == RangeIntersect(overlapRange, consumedRange)
        dl == FbDiscardLastBufferedFrames(fb, RangeLength(rewindRange))
        rest == RangeShrinkBack(rewindRange, dl[1])
        lw == [l EXCEPT !.warnings =
                   @ \cup (IF l.rfi > kMinFrameIndex THEN {"overlap"} ELSE {})
                     \cup (IF RangeEmpty(rewindRange) THEN {} ELSE {"rewind"})]
    IN  IF ~(dStart < l.rfi) THEN <<fb, l>>
        ELSE IF RangeEmpty(rewindRange) THEN <<fb, [lw EXCEPT !.rfi = dStart]>>
        ELSE <<dl[2], [lw EXCEPT !.outPos = l.outPos - RangeLength(rest),
                                 !.wr = RangeBetween(RangeStart(rest), RangeEnd(l.wr)),
                                 !.rfi = dStart]>>

\* a 1st step that writes nothing
FillMissingNever(l) == l

\* 1st step: silence for the frames missing before readFrameIndex
FillMissing(l) ==
    LET missing == RangeBetween(RangeStart(l.wr), Min2(l.rfi, RangeEnd(l.wr)))
        l1 == WriteOut(l, Zeros(RangeLength(missing)))
    IN  IF RangeStart(l.wr) < l.rfi
        THEN [l1 EXCEPT !.wr = RangeShrinkFront(l.wr, RangeLength(missing)),
                        !.warnings = @ \cup {"missing"}]
        ELSE l

\* 2nd step: the decoder skipped frames, a warning unless at the stream start
WarnSkipped(l, d, s) ==
    IF ~RangeEmpty(RangeBetween(l.rfi, RangeStart(d)))
          /\ ~(l.rfi <= RangeStart(s.frameIndexRange))
    THEN [l EXCEPT !.warnings = @ \cup {"skipped"}]
    ELSE l

\* a 3rd step that discards nothing
DiscardExcessiveNever(l, d) == <<l, d, 0>>

\* 3rd step: discard what precedes the writable range: <<locals, range, offset>>
DiscardExcessive(l, d) ==
    LET excessive == RangeBetween(RangeStart(d), Min2(RangeStart(l.wr), RangeEnd(d)))
        n == IF RangeIsForward(excessive) THEN RangeLength(excessive) ELSE 0
    IN  IF RangeStart(l.wr) > l.rfi
        THEN <<[l EXCEPT !.rfi = RangeEnd(excessive)], RangeShrinkFront(d, n), n>>
        ELSE <<l, d, 0>>

\* 4th step, first half: silence for the frames the decoder skipped
FillSkipped(l, d) ==
    LET skippable == RangeBetween(RangeStart(l.wr), Min2(RangeStart(d), RangeEnd(l.wr)))
        n == RangeLength(skippable)
        l1 == WriteOut(l, Zeros(n))
    IN  IF ~RangeEmpty(l.wr) /\ RangeIsForward(skippable)
        THEN [l1 EXCEPT !.wr = RangeShrinkFront(l.wr, n), !.rfi = l.rfi + n]
        ELSE l

\* the copy that does not stop at the end of the writable range
CopyDecodedNoClamp(l, d, data, dPos) ==
    LET l0 == [l EXCEPT !.rfi = RangeStart(d)]
        n == RangeLength(d)
        l1 == WriteOut(l0, SubSeq(data, dPos + 1, dPos + n))
    IN  IF ~RangeEmpty(l0.wr) /\ RangeIsForward(d)
        THEN <<[l1 EXCEPT !.wr = RangeShrinkFront(l0.wr, n), !.rfi = l0.rfi + n],
               RangeShrinkFront(d, n), dPos + n>>
        ELSE <<l0, d, dPos>>

\* a copy that hands out one frame at most
CopyDecodedOneFrame(l, d, data, dPos) ==
    LET l0 == [l EXCEPT !.rfi = RangeStart(d)]
        copyable == RangeBetween(l0.rfi, Min2(l0.rfi + 1,
                                              Min2(RangeEnd(d), RangeEnd(l0.wr))))
        n == RangeLength(copyable)
        l1 == WriteOut(l0, SubSeq(data, dPos + 1, dPos + n))
    IN  IF ~RangeEmpty(l0.wr) /\ RangeIsForward(copyable)
        THEN <<[l1 EXCEPT !.wr = RangeShrinkFront(l0.wr, n), !.rfi = l0.rfi + n],
               RangeShrinkFront(d, n), dPos + n>>
        ELSE <<l0, d, dPos>>

\* 4th step, second half: copy decoded samples: <<locals, range, offset>>
CopyDecoded(l, d, data, dPos) ==
    LET l0 == [l EXCEPT !.rfi = RangeStart(d)]
        copyable == RangeBetween(l0.rfi, Min2(RangeEnd(d), RangeEnd(l0.wr)))
        n == RangeLength(copyable)
        l1 == WriteOut(l0, SubSeq(data, dPos + 1, dPos + n))
    IN  IF ~RangeEmpty(l0.wr) /\ RangeIsForward(copyable)
        THEN <<[l1 EXCEPT !.wr = RangeShrinkFront(l0.wr, n), !.rfi = l0.rfi + n],
               RangeShrinkFront(d, n), dPos + n>>
        ELSE <<l0, d, dPos>>

BufferRemainderNoTrim(rfi, d, samples, total) ==
    FbBufferFrames(FbReset(rfi), d, samples)[2]

\* buffer the rest of the frame and cut what lies behind the stream end
BufferRemainder(rfi, d, samples, total) ==
    LET fb1 == FbBufferFrames(FbReset(rfi), d, samples)[2]
        end == RangeEnd(FbBufferedFrameRange(fb1))
    IN  IF end > total
        THEN FbDiscardLastBufferedFrames(fb1, end - total)[2]
        ELSE fb1

\* one received frame: [fb, loc, valid]
ProcessDecodedFrame(fb, l, s, st, frame, swrOk) ==
    LET d0 == RangeForward(ConvertStreamTimeToFrameIndex(st, frame.pts), frame.nb_samples)
        la == IF l.rfi = kUnknownFrameIndex THEN [l EXCEPT !.rfi = RangeStart(d0)] ELSE l
        rw == RewindOverlap(fb, la, RangeStart(d0))
        rs == ResampleDecodedAVFrame(s, frame, swrOk)
        l1 == WarnSkipped(FillMissing(rw[2]), d0, s)
        ex == DiscardExcessive(l1, d0)
        l3 == FillSkipped(ex[1], ex[2])
        cp == CopyDecoded(l3, ex[2], rs[2], ex[3])
        rest == SubSeq(rs[2], cp[3] + 1, cp[3] + RangeLength(cp[2]))
    IN  IF ~rs[1]
        THEN [fb |-> FbInvalidate, loc |-> rw[2]]
        ELSE IF RangeStart(l1.wr) > l1.rfi /\ RangeEmpty(ex[2])
        THEN [fb |-> FbReset(ex[1].rfi), loc |-> ex[1]]
        ELSE [fb |-> BufferRemainder(cp[1].rfi, cp[2], rest, RangeEnd(s.frameIndexRange)),
              loc |-> cp[1]]

\* the decoder reports EOF (lines 1002-1035)
ProcessEof(l) ==
    IF l.rfi # kUnknownFrameIndex /\ ~RangeEmpty(l.wr)
    THEN [WriteOut(l, Zeros(RangeLength(l.wr))) EXCEPT
             !.wr = RangeShrinkFront(l.wr, RangeLength(l.wr))]
    ELSE l

(***************************************************************************)
(* Actions                                                                 *)
(***************************************************************************)
NoLoc ==
    [W |-> <<0, 0>>, readableStart |-> 0, consumeStart |-> 0, wr |-> <<0, 0>>,
     outPos |-> 0, out |-> <<>>, oob |-> FALSE, rfi |-> kUnknownFrameIndex,
     nextPkt |-> <<>>, again |-> 0, warnings |-> {}]
NoRet == [kind |-> "none", range |-> <<0, 0>>, ok |-> TRUE]
NoObs ==
    [short |-> FALSE, flushed |-> FALSE, seeked |-> FALSE, target |-> 0,
     read |-> FALSE, sent |-> <<>>, res |-> "none", failure |-> "none", failPos |-> 0,
     frames |-> 0, beyond |-> FALSE, calls |-> <<>>, divZero |-> FALSE]
NoBackend == [demux |-> 1, decQ |-> <<>>, draining |-> FALSE, remByZero |-> "trap"]
NoSeq == [next |-> 0, sum |-> 0, last |-> "none"]
\* how the call that returns ended, as the caller sees it
LastCall == IF ret.kind = "read" THEN obs.failure ELSE "reposition"
NoConv == [done |-> FALSE, frameIndex |-> 0, pts |-> 0, back |-> 0]

\* the writable ranges a caller may pass: non-empty, inside the stream
(***************************************************************************)
(* Provider: library initialization and supported file extensions          *)
(***************************************************************************)
Threads == 1..NumThreads

\* std::call_once lets the caller run the function: the flag is fresh
\* (a plain call would run it every time)
CallOnceEntersAlways(flag) == TRUE

CallOnceEnters(flag) == flag = "fresh"

\* a | b on sets of flag bits
FlagsOr(a, b) == a \cup b
\* a & b on sets of flag bits
FlagsAnd(a, b) == a \cap b

AVFMT_SEEK_TO_PTS == {"SEEK_TO_PTS"}

\* the test of line 330: pavInputFormat->flags | AVFMT_SEEK_TO_PTS
SeekToPtsTest(flags) == FlagsOr(flags, AVFMT_SEEK_TO_PTS) # {}

\* the whitelist of lines 334-369: extensions appended for a demuxer name
WhitelistExtensions(name) ==
    CASE name = "aac" -> <<"aac">>
      [] name = "aiff" -> <<"aif", "aiff">>
      [] name = "mp3" -> <<"mp3">>
      [] name = "mp4" -> <<"mp4">>
      [] name = "m4v" -> <<"m4v">>
      [] name = "mov,mp4,m4a,3gp,3g2,mj2" ->
             <<"mov", "mp4", "m4a", "3gp", "3g2", "mj2">>
      [] name \in {"opus", "libopus"} -> <<"opus">>
      [] name = "wav" -> <<"wav">>
      [] name = "wv" -> <<"wv">>
      [] OTHER -> <<>>

RECURSIVE GetSupportedFileExtensionsOf(_)
GetSupportedFileExtensionsOf(demuxers) ==
    IF demuxers = <<>> THEN <<>>
    ELSE (IF SeekToPtsTest(Head(demuxers).flags)
              THEN WhitelistExtensions(Head(demuxers).name)
              ELSE <<>>)
         \o GetSupportedFileExtensionsOf(Tail(demuxers))

\* demuxers the backend may have registered
BackendDemuxers ==
    [name : {"aiff", "mov,mp4,m4a,3gp,3g2,mj2", "libopus", "flac"},
     flags : {{}, {"SEEK_TO_PTS"}, {"GENERIC_INDEX"}}]

BackendDemuxerLists ==
    UNION {[1..n -> BackendDemuxers] : n \in 0..MaxDemuxers}

NewProvider(demuxers) ==
    [demuxers |-> demuxers,
     initFFmpegLibFlag |-> "fresh",
     initCount |-> 0,
     at |-> [t \in Threads |-> "out"],
     made |-> [t \in Threads |-> 0],
     waited |-> {},
     listed |-> FALSE,
     list |-> <<>>]

NoProvider == NewProvider(<<>>)

WritableRanges ==
    {<<a, b>> \in (0..RangeEnd(FrameIndexRange)) \X (0..RangeEnd(FrameIndexRange)) : a < b}

Init ==
    /\ avFile \in PipelineFiles
    /\ src = NewSource
    /\ m_frameBuffer = FbResetUnknown
    /\ av \in {[NoBackend EXCEPT !.remByZero = o] : o \in RemByZeroOutcomes(avFile.stream)}
    /\ pc = "new"
    /\ loc = NoLoc
    /\ ret = NoRet
    /\ obs = NoObs
    /\ seq = NoSeq
    /\ conv = NoConv
    /\ provider = NoProvider

\* SoundSourceFFmpeg::tryOpen
TryOpen(failAt, req) ==
    /\ pc = "new"
    /\ src' = TryOpenSource(src, avFile.stream, failAt, req)
    /\ pc' = IF src'.openResult = "Succeeded" THEN "idle" ELSE "failed"
    /\ m_frameBuffer' = IF src'.openResult = "Succeeded" THEN FbReinit ELSE m_frameBuffer
    /\ obs' = [NoObs EXCEPT !.failure = failAt]
    /\ UNCHANGED <<avFile, av, loc, ret, seq, conv, provider>>

\* the running call: buffer, backend, locals, position, result, observations
Cur == [fb |-> m_frameBuffer, bk |-> av, loc |-> loc, pc |-> pc, ret |-> ret, obs |-> obs]

Apply(b) ==
    /\ m_frameBuffer' = b.fb
    /\ av' = b.bk
    /\ loc' = b.loc
    /\ pc' = b.pc
    /\ ret' = b.ret
    /\ obs' = b.obs

FinishWholeRange(l) == [kind |-> "read", range |-> l.W, ok |-> TRUE]

\* the return statement at the end of readSampleFramesClamped
Finish(l) == [kind |-> "read", range |-> RangeBetween(l.readableStart, RangeStart(l.wr)),
              ok |-> TRUE]
\* return ReadableSampleFrames() after a failed seek
FinishSeekError(l) == [kind |-> "read", range |-> <<0, 0>>, ok |-> FALSE]

AdjustObs(adj, pos) ==
    [NoObs EXCEPT !.short = adj.short, !.flushed = adj.flushed, !.seeked = adj.seeked,
                  !.target = adj.target, !.calls = adj.calls, !.divZero = adj.divZero,
                  !.failure = IF adj.ok \/ adj.crash THEN "none" ELSE "seek",
                  !.failPos = pos]

ServedFromBufferNever(wr) == FALSE

\* is the writable range that is left after consuming the buffer empty
ServedFromBuffer(wr) == RangeEmpty(wr)

\* readSampleFramesClamped up to the decoding loop (lines 918-955)
ReadBeginStep(b, W, seekOk) ==
    LET c == FbConsumeBufferedFrames(b.fb, W)
        n == Len(c[1])
        l0 == [NoLoc EXCEPT !.W = W, !.readableStart = RangeStart(W),
                            !.consumeStart = RangeStart(W) + n,
                            !.wr = RangeBetween(RangeStart(W) + n, RangeEnd(W)),
                            !.out = c[1] \o Untouched(RangeLength(W) - n),
                            !.outPos = n]
        adj == AdjustCurrentPosition(c[2], b.bk, avFile, src, RangeStart(l0.wr), seekOk)
    IN  IF ServedFromBuffer(l0.wr)
        THEN [b EXCEPT !.fb = c[2], !.loc = l0, !.ret = Finish(l0), !.pc = "done",
                       !.obs = NoObs]
        ELSE [fb |-> adj.fb, bk |-> adj.bk,
              loc |-> [l0 EXCEPT !.rfi = FbFirstFrame(adj.fb)],
              pc |-> IF adj.crash THEN "crashed" ELSE IF adj.ok THEN "outer" ELSE "done",
              ret |-> IF adj.ok \/ adj.crash THEN NoRet ELSE FinishSeekError(l0),
              obs |-> AdjustObs(adj, RangeStart(l0.wr))]

\* the head of the decoding loop: its condition and consumeNextAVPacket
\* (lines 956-958); the function returns when the loop ends
\* a loop condition that does not look at the buffer
LoopContinuesInvalid(fb, nextPkt, wr) == nextPkt # <<>> \/ ~RangeEmpty(wr)

\* a loop condition that does not look at the writable range
LoopContinuesFinished(fb, nextPkt, wr) == FbIsValid(fb)

\* the condition of the packet loop before consumeNextAVPacket (lines 956-957)
LoopContinues(fb, nextPkt, wr) ==
    FbIsValid(fb) /\ (nextPkt # <<>> \/ ~RangeEmpty(wr))

ConsumeStepOf(b, readOk, sendFault) ==
    LET go == LoopContinues(b.fb, b.loc.nextPkt, b.loc.wr)
        c == ConsumeNextAVPacket(b.fb, b.bk, avFile, b.loc.nextPkt, readOk,
                 IF sendFault = "none" THEN SendAnswer(b.bk) ELSE sendFault)
    IN  IF ~go
        THEN [b EXCEPT !.ret = Finish(b.loc), !.pc = "done"]
        ELSE [fb |-> c.fb, bk |-> c.bk,
              loc |-> [b.loc EXCEPT !.nextPkt = c.nextPkt,
                                    !.again = IF c.res = "again" THEN b.loc.again + 1
                                              ELSE 0],
              pc |-> IF c.ok THEN "inner" ELSE "done",
              ret |-> IF c.ok THEN b.ret ELSE Finish(b.loc),
              obs |-> [b.obs EXCEPT !.read = c.read, !.sent = c.sent, !.res = c.res,
                                    !.failure = IF c.ok THEN b.obs.failure
                                                ELSE IF c.res = "err" THEN "send"
                                                ELSE "read",
                                    !.failPos = IF c.ok THEN b.obs.failPos
                                                ELSE RangeStart(b.loc.wr)]]

\* one round of the receive loop (lines 962-1359)
ReceiveStepOf(b, recvOk, swrOk) ==
    LET rc == AvcodecReceiveFrame(b.bk, ~recvOk)
        pf == ProcessDecodedFrame(b.fb, b.loc, src, avFile.stream, rc[2][1], swrOk)
        end == ConvertStreamTimeToFrameIndex(avFile.stream, rc[2][1].pts)
                   + rc[2][1].nb_samples
        b1 == [b EXCEPT !.bk = rc[3]]
    IN  IF rc[1] = "frame"
        THEN [b1 EXCEPT
                !.fb = pf.fb, !.loc = pf.loc,
                !.pc = IF FbIsValid(pf.fb) THEN "inner" ELSE "outer",
                !.obs = [b.obs EXCEPT
                            !.frames = Min2(b.obs.frames + 1, 2),
                            !.beyond = b.obs.beyond \/ end > RangeEnd(FrameIndexRange),
                            !.failure = IF FbIsValid(pf.fb) THEN b.obs.failure
                                        ELSE "resample",
                            !.failPos = IF FbIsValid(pf.fb) THEN b.obs.failPos
                                        ELSE RangeStart(pf.loc.wr)]]
        ELSE IF rc[1] = "EAGAIN"
        THEN [b1 EXCEPT !.pc = "outer"]
        ELSE IF rc[1] = "EOF"
        THEN [b1 EXCEPT !.fb = FbInvalidate, !.loc = ProcessEof(b.loc), !.pc = "outer",
                        !.obs = [b.obs EXCEPT !.failure = "eof",
                                              !.failPos = RangeStart(b.loc.wr)]]
        ELSE [b1 EXCEPT !.fb = FbInvalidate, !.pc = "outer",
                        !.obs = [b.obs EXCEPT !.failure = "receive",
                                              !.failPos = RangeStart(b.loc.wr)]]

\* the caller repositions the source: adjustCurrentPosition alone
SeekStep(b, startIndex, seekOk) ==
    LET adj == AdjustCurrentPosition(b.fb, b.bk, avFile, src, startIndex, seekOk)
    IN  [b EXCEPT !.fb = adj.fb, !.bk = adj.bk,
                  !.obs = AdjustObs(adj, startIndex),
                  !.ret = [kind |-> "seek", range |-> <<startIndex, startIndex>>,
                           ok |-> adj.ok],
                  !.pc = IF adj.crash THEN "crashed" ELSE "done"]

\* the caller takes the returned value; the locals of the call are gone
ReturnStep(b) == [b EXCEPT !.pc = "idle", !.loc = NoLoc, !.ret = NoRet, !.obs = NoObs]

ReadBegin(W, seekOk) ==
    /\ pc = "idle"
    /\ Apply(ReadBeginStep(Cur, W, seekOk))
    /\ UNCHANGED <<avFile, src, seq, conv, provider>>

ConsumeStep(readOk, sendFault) ==
    /\ pc = "outer"
    /\ sendFault = "again" => loc.again < MaxSendAgain
    /\ Apply(ConsumeStepOf(Cur, readOk, sendFault))
    /\ UNCHANGED <<avFile, src, seq, conv, provider>>

ReceiveStep(recvOk, swrOk) ==
    /\ pc = "inner"
    /\ Apply(ReceiveStepOf(Cur, recvOk, swrOk))
    /\ UNCHANGED <<avFile, src, seq, conv, provider>>

Seek(startIndex, seekOk) ==
    /\ pc = "idle"
    /\ Apply(SeekStep(Cur, startIndex, seekOk))
    /\ UNCHANGED <<avFile, src, seq, conv, provider>>

Return ==
    /\ pc = "done"
    /\ Apply(ReturnStep(Cur))
    /\ seq' = [seq EXCEPT !.last = LastCall]
    /\ UNCHANGED <<avFile, src, conv, provider>>

Next ==
    \/ \E failAt \in OpenFailPoints : TryOpen(failAt, 0)
    \/ \E W \in WritableRanges, seekOk \in BOOLEAN : ReadBegin(W, seekOk)
    \/ \E readOk \in BOOLEAN, sendFault \in {"none", "again", "err"} :
            ConsumeStep(readOk, sendFault)
    \/ \E recvOk \in BOOLEAN, swrOk \in BOOLEAN : ReceiveStep(recvOk, swrOk)
    \/ \E i \in 0..(RangeEnd(FrameIndexRange) - 1), seekOk \in BOOLEAN : Seek(i, seekOk)
    \/ Return

Spec == Init /\ [][Next]_vars

\* the pipeline with a running readSampleFramesClamped that keeps executing:
\* the head of the packet loop and the receive loop are sequential code
SpecFair ==
    /\ Init
    /\ [][Next]_vars
    /\ WF_vars(\E readOk \in BOOLEAN, sendFault \in {"none", "again", "err"} :
                    ConsumeStep(readOk, sendFault))
    /\ WF_vars(\E recvOk \in BOOLEAN, swrOk \in BOOLEAN : ReceiveStep(recvOk, swrOk))

(***************************************************************************)
(* A whole call against an undisturbed backend: no injected failure, the   *)
(* decoder accepts what it is sent                                         *)
(***************************************************************************)
RECURSIVE RunLoop(_)
RunLoop(b) ==
    IF b.pc = "outer" THEN RunLoop(ConsumeStepOf(b, TRUE, "none"))
    ELSE IF b.pc = "inner" THEN RunLoop(ReceiveStepOf(b, TRUE, TRUE))
    ELSE b

\* readSampleFramesClamped(W) from the state b between two calls
RunRead(b, W) == RunLoop(ReadBeginStep(b, W, TRUE))
\* the state after the caller has taken the result
AfterCall(b) == ReturnStep(b)

(***************************************************************************)
(* The caller that reads the stream from its first to its last frame in    *)
(* adjacent chunks, pass after pass, against an undisturbed backend (the   *)
(* decoder may still answer EAGAIN to a packet)                            *)
(***************************************************************************)
SeqRead(W) ==
    /\ pc = "idle"
    /\ RangeStart(W) = seq.next
    /\ Apply(ReadBeginStep(Cur, W, TRUE))
    /\ UNCHANGED <<avFile, src, seq, conv, provider>>

SeqReturn ==
    /\ pc = "done"
    /\ Apply(ReturnStep(Cur))
    /\ seq' = [next |-> RangeEnd(ret.range), sum |-> seq.sum + RangeLength(ret.range),
               last |-> LastCall]
    /\ UNCHANGED <<avFile, src, conv, provider>>

SeqRestart ==
    /\ pc = "idle"
    /\ seq.next = RangeEnd(FrameIndexRange)
    /\ seq' = NoSeq
    /\ UNCHANGED <<avFile, src, m_frameBuffer, av, pc, loc, ret, obs, conv, provider>>

NextSeq ==
    \/ TryOpen("none", 0)
    \/ \E W \in WritableRanges : SeqRead(W)
    \/ \E sendFault \in {"none", "again"} : ConsumeStep(TRUE, sendFault)
    \/ ReceiveStep(TRUE, TRUE)
    \/ SeqReturn
    \/ SeqRestart

SpecSeq == Init /\ [][NextSeq]_vars

(***************************************************************************)
(* Opening streams of every shape and converting frame indices of the      *)
(* published range to timestamps and back                                  *)
(***************************************************************************)
OpenStreams ==
    {[BaseStream(0, 0, 0, "FLT") EXCEPT
          !.codec_id = c, !.start_time = s, !.duration = d,
          !.tbNum = tb[1], !.tbDen = tb[2], !.sample_rate = r,
          !.sample_fmt = f, !.bit_rate = br] :
        c \in {"PCM", "AAC", "AAC_LATM", "MP3"},
        s \in {AV_NOPTS_VALUE, 0, 3, -2},
        d \in {AV_NOPTS_VALUE, 0, 2, 9, kavStreamDecoderDelayAAC + 8},
        tb \in {<<1, 1>>, <<1, 2>>, <<1, 3>>, <<1, 4>>, <<2, 3>>},
        r \in {1, 2, 3},
        f \in {"FLT", "S16"},
        br \in {128000, 0}}

\* streams of every codec family, mono and stereo, with backend prerolls below,
\* between and above the codec-specific values
PrerollStreams ==
    {[BaseStream(p, 0, 0, "FLT") EXCEPT
          !.codec_id = c, !.channels = n,
          !.channel_layout = av_get_default_channel_layout(n)] :
        c \in {"PCM", "AAC", "AAC_LATM", "MP3", "MP3ON4"},
        n \in {1, 2},
        p \in {0, 3000, 6000, 12000}}

OpenFiles == {MkFile("open", st, <<>>) : st \in OpenStreams \cup PrerollStreams}

InitOpen ==
    /\ avFile \in OpenFiles
    /\ src = NewSource
    /\ m_frameBuffer = FbResetUnknown
    /\ av = NoBackend
    /\ pc = "new"
    /\ loc = NoLoc
    /\ ret = NoRet
    /\ obs = NoObs
    /\ seq = NoSeq
    /\ conv = NoConv
    /\ provider = NoProvider

\* a caller converts the frame index i to a stream timestamp and back
Convert(i) ==
    /\ pc = "idle"
    /\ RangeContainsIndex(FrameIndexRange, i)
    /\ conv' = [done |-> TRUE, frameIndex |-> i,
                pts |-> ConvertFrameIndexToStreamTime(avFile.stream, i),
                back |-> ConvertStreamTimeToFrameIndex(avFile.stream,
                             ConvertFrameIndexToStreamTime(avFile.stream, i))]
    /\ UNCHANGED <<avFile, src, m_frameBuffer, av, pc, loc, ret, obs, seq, provider>>

\* SoundSourceFFmpeg::close, called by the owner of the session after tryOpen
\* has returned, and once more by the destructor
Close ==
    /\ pc \in {"idle", "failed", "closed"}
    /\ obs' = [obs EXCEPT !.calls = @ \o Released(src)]
    /\ src' = CloseSource(src)
    /\ pc' = IF pc = "closed" THEN "destroyed" ELSE "closed"
    /\ UNCHANGED <<avFile, m_frameBuffer, av, loc, ret, seq, conv, provider>>

(***************************************************************************)
(* Specification of the session's life: streams of every channel layout    *)
(* and sample format are opened with and without a requested channel       *)
(* count, closed and destroyed                                             *)
(***************************************************************************)
\* mono and stereo streams whose channel layout is undefined, the default of
\* the channel count, or another one, decoded as float32 or as int16
SessionStreams ==
    {[BaseStream(0, 0, 0, f) EXCEPT !.channels = n, !.channel_layout = l,
                                    !.sample_rate = r] :
        n \in {1, 2}, l \in {kavChannelLayoutUndefined, 3, 4, 7},
        f \in {"FLT", "S16"}, r \in {2, 3}}

SessionFiles == {MkFile("session", st, <<>>) : st \in SessionStreams}

\* the channel counts of the open parameters: none, mono, stereo
RequestedChannelCounts == {0, 1, 2}

InitSession ==
    /\ avFile \in SessionFiles
    /\ src = NewSource
    /\ m_frameBuffer = FbResetUnknown
    /\ av = NoBackend
    /\ pc = "new"
    /\ loc = NoLoc
    /\ ret = NoRet
    /\ obs = NoObs
    /\ seq = NoSeq
    /\ conv = NoConv
    /\ provider = NoProvider

NextSession ==
    \/ \E failAt \in OpenFailPoints, req \in RequestedChannelCounts :
            TryOpen(failAt, req)
    \/ Close

SpecSession == InitSession /\ [][NextSession]_vars

NextOpen ==
    \/ \E failAt \in OpenFailPoints : TryOpen(failAt, 0)
    \/ \E i \in 0..MaxMapIndex : Convert(i)

SpecOpen == InitOpen /\ [][NextOpen]_vars

(***************************************************************************)
(* Specification of the provider: threads construct providers, one asks    *)
(* for the supported file extensions                                       *)
(***************************************************************************)
InitProvider ==
    /\ avFile = PlainFile
    /\ src = NewSource
    /\ m_frameBuffer = FbResetUnknown
    /\ av = NoBackend
    /\ pc = "new"
    /\ loc = NoLoc
    /\ ret = NoRet
    /\ obs = NoObs
    /\ seq = NoSeq
    /\ conv = NoConv
    /\ provider \in {NewProvider(d) : d \in BackendDemuxerLists}

NoSession == <<avFile, src, m_frameBuffer, av, pc, loc, ret, obs, seq, conv>>

\* thread t enters the constructor, which calls std::call_once
ProviderConstruct(t) ==
    /\ provider.at[t] = "out"
    /\ provider.made[t] < MaxProviders
    /\ provider' =
         IF provider.initFFmpegLibFlag = "done"
             THEN [provider EXCEPT !.made[t] = @ + 1]
         ELSE IF CallOnceEnters(provider.initFFmpegLibFlag)
             THEN [provider EXCEPT !.initFFmpegLibFlag = "running",
                                   !.at[t] = "init"]
             ELSE [provider EXCEPT !.at[t] = "wait", !.waited = @ \cup {t}]
    /\ UNCHANGED NoSession

\* thread t runs initFFmpegLib inside call_once and returns from the constructor
InitFFmpegLib(t) ==
    /\ provider.at[t] = "init"
    /\ provider' = [provider EXCEPT !.initCount = @ + 1,
                                    !.initFFmpegLibFlag = "done",
                                    !.at[t] = "out",
                                    !.made[t] = @ + 1]
    /\ UNCHANGED NoSession

\* thread t, blocked in call_once, sees the flag set and returns
ProviderResume(t) ==
    /\ provider.at[t] = "wait"
    /\ provider.initFFmpegLibFlag = "done"
    /\ provider' = [provider EXCEPT !.at[t] = "out", !.made[t] = @ + 1]
    /\ UNCHANGED NoSession

\* getSupportedFileExtensions is called on a constructed provider
GetSupportedFileExtensions ==
    /\ \E t \in Threads : provider.made[t] > 0
    /\ ~provider.listed
    /\ provider' = [provider EXCEPT
                        !.listed = TRUE,
                        !.list = GetSupportedFileExtensionsOf(provider.demuxers)]
    /\ UNCHANGED NoSession

NextProvider ==
    \/ \E t \in Threads : ProviderConstruct(t)
    \/ \E t \in Threads : InitFFmpegLib(t)
    \/ \E t \in Threads : ProviderResume(t)
    \/ GetSupportedFileExtensions

SpecProvider == InitProvider /\ [][NextProvider]_vars

(***************************************************************************)
(* Properties                                                              *)
(***************************************************************************)
Total == RangeEnd(FrameIndexRange)
\* a call of readSampleFramesClamped has returned and the caller has not yet
\* taken the result
ReadReturned == pc = "done" /\ ret.kind = "read"
DecodeFailures == {"read", "send", "receive", "resample"}

C2_StartPreserved ==
    ReadReturned => RangeStart(ret.range) = RangeStart(loc.W)

\* a read that begins behind frame 0 and whose backend seek failed
C2_Witness ==
    /\ ReadReturned
    /\ obs.failure = "seek"
    /\ RangeStart(loc.W) > 0

\* C5: adjustCurrentPosition on a ready buffer whose buffered range holds the
\* start index succeeds, leaves the decoder and the demuxer alone and leaves
\* the buffer ready with its first frame at the start index
C5_ShortSeek ==
    [][(/\ pc = "idle"
        /\ ret'.kind = "seek"
        /\ FbIsReady(m_frameBuffer)
        /\ RangeContainsIndex(FbBufferedFrameRange(m_frameBuffer), RangeStart(ret'.range)))
       => (/\ ret'.ok
           /\ ~obs'.flushed
           /\ ~obs'.seeked
           /\ av' = av
           /\ FbIsReady(m_frameBuffer')
           /\ FbFirstFrame(m_frameBuffer') = RangeStart(ret'.range)
           /\ RangeEnd(FbBufferedFrameRange(m_frameBuffer'))
                  = RangeEnd(FbBufferedFrameRange(m_frameBuffer)))]_vars

\* a seek served from the buffer that had to drop a buffered frame
C5_Witness ==
    /\ pc = "done"
    /\ ret.kind = "seek"
    /\ obs.short
    /\ ~FbIsEmpty(m_frameBuffer)
    /\ FbFirstFrame(m_frameBuffer) = RangeStart(ret.range)
    /\ av.demux > 1

\* C9: a packet the decoder answered EAGAIN to is kept and is the next packet
\* sent, without reading the demuxer; an accepted packet is released and the
\* next packet sent comes from the demuxer
C9_PacketRetained ==
    [][(pc = "outer" /\ pc' = "inner")
       => (/\ loc.nextPkt # <<>> =>
                  (obs'.sent = loc.nextPkt /\ ~obs'.read /\ av'.demux = av.demux)
           /\ loc.nextPkt = <<>> =>
                  (/\ obs'.read
                   /\ obs'.sent # <<>>
                   /\ (obs'.sent[1].size = 0 \/ av'.demux > av.demux))
           /\ obs'.res = "again" => (loc'.nextPkt = obs'.sent /\ av'.decQ = av.decQ)
           /\ obs'.res = "ok" => loc'.nextPkt = <<>>)]_vars

\* the kept packet was sent again, without a read, and accepted
C9_Witness ==
    /\ pc = "inner"
    /\ obs.res = "ok"
    /\ ~obs.read
    /\ obs.sent # <<>>
    /\ loc.nextPkt = <<>>
    /\ av.decQ # <<>>

OutAt(r, i) ==
    IF r.ret.kind = "read" /\ RangeContainsIndex(r.ret.range, i)
    THEN r.loc.out[i - RangeStart(r.loc.W) + 1]
    ELSE -2

\* do the reads of [a,b) and then [b,c) deliver what one read of [a,c) delivers
SplitSame(a, b, c) ==
    LET r1 == RunRead(Cur, <<a, b>>)
        r2 == RunRead(AfterCall(r1), <<b, c>>)
        r  == RunRead(Cur, <<a, c>>)
    IN  \A i \in a..(c - 1) :
            (IF i < b THEN OutAt(r1, i) ELSE OutAt(r2, i)) = OutAt(r, i)

\* C3: from every state between two calls, reading [a,b) and then [b,c)
\* delivers for every frame index the same sample or silence as reading
\* [a,c) in one call
C3_MonotonicRead ==
    pc = "idle" =>
        \A a \in 0..Total, b \in 0..Total, c \in 0..Total :
            (a < b /\ b < c) => SplitSame(a, b, c)

\* does reading W, seeking back to its start and reading W again deliver the
\* same output twice
SeekSame(W) ==
    LET r1 == RunRead(Cur, W)
        s1 == SeekStep(AfterCall(r1), RangeStart(W), TRUE)
        r2 == RunRead(AfterCall(s1), W)
    IN  \A i \in RangeStart(W)..(RangeEnd(W) - 1) : OutAt(r1, i) = OutAt(r2, i)

\* C4: from every state between two calls, reading a range, repositioning to
\* its start and reading it again delivers the same output for every frame
\* index of the range
C4_SeekIdempotence ==
    pc = "idle" => \A W \in WritableRanges : SeekSame(W)

\* does the decoder emit a frame that reaches behind the published stream end
Overflows(file) ==
    \E k \in 1..Len(file.pkts) : \E j \in 1..Len(file.pkts[k].frames) :
        ConvertStreamTimeToFrameIndex(file.stream, file.pkts[k].frames[j].pts)
            + file.pkts[k].frames[j].nb_samples
          > RangeEnd(GetStreamFrameIndexRange(file.stream))

\* the frames of the packets from packet k on, in decoding order
RECURSIVE FramesFrom(_, _)
FramesFrom(pkts, k) ==
    IF k > Len(pkts) THEN <<>> ELSE pkts[k].frames \o FramesFrom(pkts, k + 1)

\* no decoded frame starts behind the end of the frame decoded before it
Gapless(file) ==
    LET fs == FramesFrom(file.pkts, 1)
        start(i) == ConvertStreamTimeToFrameIndex(file.stream, fs[i].pts)
    IN  \A i \in 2..Len(fs) : start(i) <= start(i - 1) + fs[i - 1].nb_samples

ClaimedLength(st) ==
    LET effStart == IF st.start_time # AV_NOPTS_VALUE THEN st.start_time
                    ELSE IF IsAAC(st) THEN kavStreamDecoderDelayAAC
                    ELSE kavStreamDefaultStartTime
        effEnd == IF st.duration >= effStart THEN st.duration ELSE effStart
    IN  AvRescaleQ(effEnd - effStart, st.tbNum, st.tbDen, 1, st.sample_rate)

\* C7: after a successful open the published frame index range is
\* [0, length), length the distance in frames from the effective start time
\* to the effective end time; it is 0 when the duration is smaller than the
\* effective start time
C7_PublishedRange ==
    src.openResult = "Succeeded" =>
        /\ FrameIndexRange = RangeBetween(0, ClaimedLength(avFile.stream))
        /\ avFile.stream.duration < GetStreamStartTime(avFile.stream) =>
               FrameIndexRange = RangeBetween(0, 0)

\* an AAC stream without a start time, opened with a range that is not empty
C7_Witness ==
    /\ src.openResult = "Succeeded"
    /\ avFile.stream.start_time = AV_NOPTS_VALUE
    /\ IsAAC(avFile.stream)
    /\ RangeLength(FrameIndexRange) > 0
    /\ avFile.stream.tbDen % (avFile.stream.tbNum * avFile.stream.sample_rate) # 0

FineTimeBase(st) == st.tbNum * st.sample_rate <= st.tbDen

InRead == pc \in {"outer", "inner"} \/ ReadReturned

\* C11 as stated: the read call that follows a read ended by a decode or
\* demux error, with no explicit seek in between, returns an empty range
C11_EmptyAfterError ==
    (ReadReturned /\ seq.last \in DecodeFailures) => RangeEmpty(ret.range)

\* C11: the read call that follows a read ended by a decode or demux error
\* finds the buffer invalid and repositions by itself: it flushes the decoder
\* and seeks the demuxer; it returns the empty default range only when that
\* seek fails, and the whole writable range when nothing fails and the
\* decoder does not run into EOF
C11_ReseekAfterError ==
    (InRead /\ seq.last \in DecodeFailures) =>
        /\ obs.flushed /\ obs.seeked
        /\ ReadReturned =>
               (/\ obs.failure = "seek" <=> ~ret.ok
                /\ obs.failure = "seek" => ret.range = <<0, 0>>
                /\ obs.failure = "none" => ret.range = loc.W)

\* after a failed read the next read has returned its whole range
C11_Witness ==
    /\ ReadReturned
    /\ seq.last \in DecodeFailures
    /\ obs.failure = "none"
    /\ ret.range = loc.W
    /\ loc.out[1] = SampleVal(RangeStart(loc.W))

\* C12: when the decoder reports EOF while the writable range is not yet
\* filled, the rest of the range is filled with silence, the readable range
\* is the whole writable range and the buffer is invalid at the return,
\* whether or not a frame was decoded since the position was last reset
C12_EofPadding ==
    (ReadReturned /\ obs.failure = "eof" /\ obs.failPos < RangeEnd(loc.W)) =>
        /\ ret.range = loc.W
        /\ ~FbIsValid(m_frameBuffer)
        /\ \A i \in obs.failPos..(RangeEnd(loc.W) - 1) :
               loc.out[i - RangeStart(loc.W) + 1] = 0

\* EOF in a call that decoded no frame: the range is left unfilled
C12_Witness ==
    /\ ReadReturned
    /\ obs.failure = "eof"
    /\ obs.frames = 0
    /\ obs.failPos < RangeEnd(loc.W)
    /\ ~FbIsValid(m_frameBuffer)

\* the step that begins a read call
IsReadBegin == pc = "idle" /\ (pc' = "outer" \/ (pc' = "done" /\ ret'.kind = "read"))

\* the number of frames of W that the buffer holds from W's start on
BufferedHead(fb, W) ==
    IF FbIsReady(fb) /\ RangeContainsIndex(FbBufferedFrameRange(fb), RangeStart(W))
    THEN Min2(RangeEnd(FbBufferedFrameRange(fb)), RangeEnd(W)) - RangeStart(W)
    ELSE 0

\* C13: a read call first moves the buffered frames of its range to the
\* output; when they fill the range it returns the whole range and the
\* backend is not touched (no flush, no seek, no packet read or sent, no
\* frame received)
C13_BufferFirst ==
    [][IsReadBegin =>
          LET W == loc'.W
              n == BufferedHead(m_frameBuffer, W)
              skip == RangeStart(W) - FbFirstFrame(m_frameBuffer)
          IN  /\ n > 0 =>
                    (/\ loc'.consumeStart = RangeStart(W) + n
                     /\ SubSeq(loc'.out, 1, n)
                            = SubSeq(m_frameBuffer.buf, skip + 1, skip + n))
              /\ n = RangeLength(W) =>
                    (/\ pc' = "done"
                     /\ ret'.range = W
                     /\ av' = av
                     /\ obs' = NoObs
                     /\ FbFirstFrame(m_frameBuffer') = RangeEnd(W))]_vars

\* a read of two frames that was served from the buffer alone
C13_Witness ==
    /\ ReadReturned
    /\ obs = NoObs
    /\ ret.range = loc.W
    /\ RangeLength(loc.W) = 2
    /\ loc.consumeStart = RangeEnd(loc.W)
    /\ loc.out[2] = SampleVal(RangeStart(loc.W) + 1)

\* tryOpen has returned
OpenReturned == src.openResult # "None"
\* the call of tryOpen that was made to fail
OpenFault == obs.failure
\* the failing call is one that this open makes at all
FaultApplies(st) ==
    /\ OpenFault # "none"
    /\ OpenFault \in {"swr_alloc", "swr_init"} => NeedsResampling(st)
    /\ OpenFault = "init_bitrate" => st.bit_rate \div 1000 > 0
    /\ OpenFault = "init_frame_range" => st.duration # AV_NOPTS_VALUE

\* the results of tryOpen by the step that failed
OpenResultByFault ==
    LET st == avFile.stream IN
    /\ OpenFault \in {"open_input", "find_stream_info", "open_decoder"} =>
           src.openResult = "Failed"
    /\ (OpenFault \in {"swr_alloc", "swr_init"} /\ NeedsResampling(st)) =>
           src.openResult = "Failed"
    /\ OpenFault \in {"find_best_stream", "parameters_to_context"} =>
           src.openResult = "Aborted"
    /\ (OpenFault \in {"none", "init_frame_range"} /\ st.duration = AV_NOPTS_VALUE) =>
           src.openResult = "Failed"
    /\ src.openResult = "Succeeded" =>
           (/\ ~FaultApplies(st)
            /\ st.duration # AV_NOPTS_VALUE
            /\ src.fmtCtx /\ src.codecCtx /\ src.stream /\ src.decodedFrame
            /\ src.swr = NeedsResampling(st)
            /\ src.channelCount = st.channels
            /\ src.sampleRate = st.sample_rate
            /\ m_frameBuffer = FbReinit)

OwnedHandles ==
    {h \in {"fmtCtx", "codecCtx", "swr", "decodedFrame", "resampledFrame"} :
        src[h]}

\* C15: once tryOpen has returned Failed or Aborted the session owns no
\* native handle
C15_NoHandleAfterError ==
    src.openResult \in {"Failed", "Aborted"} => OwnedHandles = {}

\* the open failed in the resampler and returned with the demuxer, the decoder
\* and the resampler still owned
C15_Witness ==
    /\ src.openResult = "Failed"
    /\ OpenFault = "swr_init"
    /\ OwnedHandles = {"fmtCtx", "codecCtx", "swr"}

SeqToSet(q) == {q[i] : i \in 1..Len(q)}

\* the extensions of the whitelisted demuxers that advertise SEEK_TO_PTS
SeekableWhitelistExtensions(demuxers) ==
    UNION {SeqToSet(WhitelistExtensions(demuxers[i].name)) :
              i \in {j \in 1..Len(demuxers) :
                        FlagsAnd(demuxers[j].flags, AVFMT_SEEK_TO_PTS) # {}}}

\* C16: getSupportedFileExtensions returns the extensions of exactly the
\* demuxers that are in the whitelist and advertise SEEK_TO_PTS
C16_ExactlySeekable ==
    provider.listed =>
        SeqToSet(provider.list) = SeekableWhitelistExtensions(provider.demuxers)

\* a whitelisted demuxer that does not advertise SEEK_TO_PTS is the only one
\* registered and its extensions were returned
C16_Witness ==
    /\ provider.listed
    /\ Len(provider.demuxers) = 1
    /\ provider.demuxers[1].name = "aiff"
    /\ provider.demuxers[1].flags = {}
    /\ provider.list = <<"aif", "aiff">>

\* C17: initFFmpegLib runs at most once whatever the threads do, and once a
\* constructor has returned it has run exactly once and has completed
C17_InitOnce ==
    /\ provider.initCount <= 1
    /\ (\E t \in Threads : provider.made[t] > 0) =>
           (provider.initCount = 1 /\ provider.initFFmpegLibFlag = "done")
    /\ \A t \in Threads : provider.at[t] = "wait" =>
           provider.initFFmpegLibFlag # "fresh"

\* both threads have constructed all their providers, one of them had to wait
\* for the other's initialization, which ran once
C17_Witness ==
    /\ \A t \in Threads : provider.made[t] = MaxProviders
    /\ provider.waited # {}
    /\ provider.initCount = 1

\* adjustCurrentPosition has just sought for the start index obs.failPos
JustAdjusted ==
    \/ pc = "outer" /\ ~obs.read /\ obs.sent = <<>> /\ obs.frames = 0
    \/ pc = "done" /\ ret.kind = "seek"

\* max(0, start - preroll) rounded down to a multiple of f counted from 0
SnappedTarget(start, preroll, f) ==
    LET t == Max2(0, start - preroll)
    IN  IF f > 0 THEN t - (t % f) ELSE t

\* C18: the seek target is max(0, start - preroll) rounded down to a multiple
\* of the fixed frame size, and max(0, start - preroll) when there is none
C18_SeekTarget ==
    (obs.seeked /\ JustAdjusted) =>
        obs.target = SnappedTarget(obs.failPos, src.seekPrerollFrameCount,
                                   avFile.stream.frame_size)

\* the stream's frame size is 2, the decoder's is 3, and the seek for start
\* index 5 went to frame 3
C18_Witness ==
    /\ obs.seeked
    /\ JustAdjusted
    /\ avFile.stream.frame_size = 2
    /\ avFile.stream.ctx_frame_size = 3
    /\ obs.failPos = 5
    /\ obs.target = 3

\* the frame index at which the first frame decoded from the stream head starts
HeadFrameIndex ==
    ConvertStreamTimeToFrameIndex(avFile.stream, avFile.pkts[1].pts)

\* a read of [0, n) that has positioned the decoder at the head of a stream
\* with a lead-in has returned without a failure
LeadInRead ==
    /\ ReadReturned
    /\ HeadFrameIndex < 0
    /\ RangeStart(loc.W) = 0
    /\ obs.seeked
    /\ obs.target = 0
    /\ obs.failure = "none"

\* C19: a read of [0, n) from a stream whose first decoded frame starts at a
\* negative index returns n frames that are the samples 0 .. n-1, nothing of
\* the lead-in reaches the output or the buffer, and no warning is logged
C19_LeadInDropped ==
    LeadInRead =>
        /\ ret.range = loc.W
        /\ \A i \in 0..(RangeEnd(loc.W) - 1) : loc.out[i + 1] = SampleVal(i)
        /\ FbIsReady(m_frameBuffer)
        /\ FbFirstFrame(m_frameBuffer) = RangeEnd(loc.W)
        /\ \A j \in 1..Len(m_frameBuffer.buf) :
               m_frameBuffer.buf[j] = SampleVal(FbFirstFrame(m_frameBuffer) + j - 1)
        /\ loc.warnings = {}

\* the first decoded frame started at -1, [0, 2) was read from the head and
\* the sample 2 decoded with it is buffered
C19_Witness ==
    /\ LeadInRead
    /\ HeadFrameIndex = -1
    /\ loc.W = <<0, 2>>
    /\ loc.out = <<SampleVal(0), SampleVal(1)>>
    /\ m_frameBuffer.buf = <<SampleVal(2)>>

\* C20: the effective start time is the stream's start_time when defined,
\* else 2112 for AAC and AAC-LATM and 0 for every other codec, and it is never
\* the undefined sentinel; the timestamp of frame index 0 is that start time
C20_StartTime ==
    LET st == avFile.stream
        t == GetStreamStartTime(st)
    IN  OpenReturned =>
            /\ st.start_time # AV_NOPTS_VALUE => t = st.start_time
            /\ (st.start_time = AV_NOPTS_VALUE /\ st.codec_id \in {"AAC", "AAC_LATM"}) =>
                   t = 2112
            /\ (st.start_time = AV_NOPTS_VALUE /\ st.codec_id \notin {"AAC", "AAC_LATM"}) =>
                   t = 0
            /\ t # AV_NOPTS_VALUE
            /\ (conv.done /\ conv.frameIndex = 0) => conv.pts = t

\* an AAC-LATM stream without start time is open and its frame 0 has been
\* given the timestamp 2112
C20_Witness ==
    /\ src.openResult = "Succeeded"
    /\ avFile.stream.codec_id = "AAC_LATM"
    /\ avFile.stream.start_time = AV_NOPTS_VALUE
    /\ conv.done
    /\ conv.frameIndex = 0
    /\ conv.pts = 2112

\* the codec-specific preroll: 9 MP3 frames, the AAC decoder delay, else none
CodecPreroll(st) ==
    CASE st.codec_id \in {"MP3", "MP3ON4"} -> 9 * (1152 \div st.channels)
      [] st.codec_id \in {"AAC", "AAC_LATM"} -> 2112
      [] OTHER -> 0

\* C21: the seek preroll of an open stream is the larger of the backend's
\* seek_preroll and the codec-specific value (9 * (1152 / channels) for MP3
\* and MP3ON4, 2112 for AAC and AAC-LATM), the backend's value for every
\* other codec, and never negative
C21_SeekPreroll ==
    LET st == avFile.stream
    IN  src.openResult = "Succeeded" =>
            /\ src.seekPrerollFrameCount = Max2(st.seek_preroll, CodecPreroll(st))
            /\ st.codec_id \notin {"MP3", "MP3ON4", "AAC", "AAC_LATM"} =>
                   src.seekPrerollFrameCount = st.seek_preroll
            /\ src.seekPrerollFrameCount >= 0

\* a mono MP3 stream whose backend preroll is below 9 * 1152 is open
C21_Witness ==
    /\ src.openResult = "Succeeded"
    /\ avFile.stream.codec_id = "MP3"
    /\ avFile.stream.channels = 1
    /\ avFile.stream.seek_preroll = 6000
    /\ src.seekPrerollFrameCount = 10368

\* C22: in a read call an invalid buffer stays invalid until the call has
\* returned and nothing is read, sent, received or written after the
\* invalidation; the next read call of a non-empty range flushes the decoder
\* and seeks the backend before it reads a packet
C22_InvalidOneWay ==
    [][/\ (pc \in {"outer", "inner"} /\ ~FbIsValid(m_frameBuffer)) =>
              (/\ pc' = "done"
               /\ m_frameBuffer' = m_frameBuffer
               /\ av' = av
               /\ obs' = obs
               /\ loc' = loc)
       /\ (pc = "done" /\ ret.kind = "read" /\ ~FbIsValid(m_frameBuffer)) =>
              ~FbIsValid(m_frameBuffer')
       /\ (IsReadBegin /\ ~FbIsValid(m_frameBuffer) /\ ~RangeEmpty(loc'.W)) =>
              (/\ obs'.flushed
               /\ obs'.seeked
               /\ ~obs'.read
               /\ obs'.sent = <<>>
               /\ obs'.frames = 0)]_vars

\* a read that followed a failed read has sought again, has decoded a frame
\* and stands in the packet loop with the buffer invalidated by the resampler
C22_Witness ==
    /\ pc = "outer"
    /\ ~FbIsValid(m_frameBuffer)
    /\ seq.last \in DecodeFailures
    /\ obs.seeked
    /\ obs.failure = "resample"

\* C23: in the packet loop a new packet is read only when the buffer is valid,
\* no packet is retained and the writable range is not empty; a retained
\* packet is sent again without reading; with the writable range empty and no
\* packet retained nothing more is read or sent and the call returns; the
\* receive loop reads no packet
C23_PacketReadGuard ==
    [][/\ (pc = "outer" /\ (~FbIsValid(m_frameBuffer)
                              \/ (loc.nextPkt = <<>> /\ RangeEmpty(loc.wr)))) =>
              (pc' = "done" /\ av' = av /\ obs' = obs)
       /\ (pc = "outer" /\ FbIsValid(m_frameBuffer) /\ loc.nextPkt # <<>>) =>
              (~obs'.read /\ obs'.sent = loc.nextPkt /\ av'.demux = av.demux)
       /\ (pc = "outer" /\ FbIsValid(m_frameBuffer) /\ loc.nextPkt = <<>>
              /\ ~RangeEmpty(loc.wr)) =>
              obs'.read
       /\ pc = "inner" => av'.demux = av.demux]_vars

\* a packet had been retained from an EAGAIN send and was sent again; now the
\* writable range is filled, no packet is retained and the buffer is valid
C23_Witness ==
    /\ pc = "outer"
    /\ FbIsValid(m_frameBuffer)
    /\ RangeEmpty(loc.wr)
    /\ loc.nextPkt = <<>>
    /\ ~obs.read
    /\ obs.res = "ok"
    /\ obs.frames > 0

\* adjustCurrentPosition runs in this step, as a seek of the caller or at the
\* begin of a read that the buffer does not serve
IsAdjust ==
    /\ pc = "idle"
    /\ \/ pc' = "done" /\ ret'.kind = "seek"
       \/ pc' = "outer"
       \/ pc' = "done" /\ ret'.kind = "read" /\ obs' # NoObs

\* the buffer adjustCurrentPosition finds: a read has consumed its head first
AdjustBuffer ==
    IF ret'.kind = "seek" THEN m_frameBuffer
    ELSE FbConsumeBufferedFrames(m_frameBuffer, loc'.W)[2]

\* the start index adjustCurrentPosition is called with
AdjustStart == IF ret'.kind = "seek" THEN RangeStart(ret'.range) ELSE loc'.consumeStart

\* the position of the buffer once the short seek has failed and the
\* buffered frames are discarded
AdjustPosition ==
    IF FbIsReady(AdjustBuffer)
    THEN FbFirstFrame(AdjustBuffer) + Len(AdjustBuffer.buf)
    ELSE FbFirstFrame(AdjustBuffer)

\* C24: without a short seek adjustCurrentPosition flushes the decoder and
\* seeks the backend exactly when the buffer is invalid or its position is
\* after the start index or before the seek target, the flush comes first,
\* and with the position in [seek target, start] neither is called
C24_SeekCondition ==
    [][(IsAdjust /\ ~obs'.short) =>
          LET must == \/ ~FbIsValid(AdjustBuffer)
                      \/ AdjustPosition > AdjustStart
                      \/ AdjustPosition < obs'.target
          IN  /\ must => obs'.calls = <<"avcodec_flush_buffers", "av_seek_frame">>
              /\ ~must => (obs'.calls = <<>> /\ av' = av)
              /\ (obs'.target <= AdjustPosition /\ AdjustPosition <= AdjustStart) =>
                     (obs'.calls = <<>> /\ av' = av)]_vars

\* a read went on from the position the buffer stood at, without flush and seek
C24_Witness ==
    /\ pc = "outer"
    /\ ~obs.short
    /\ obs.calls = <<>>
    /\ ~obs.read
    /\ obs.frames = 0
    /\ loc.consumeStart > 0

\* C25: after adjustCurrentPosition has returned true without a short seek the
\* buffer is valid, empty and at an unknown position as long as no frame is
\* decoded and nothing fails; after it has returned false the buffer is
\* invalid, and a read returns an empty range and has written nothing
C25_AfterAdjust ==
    /\ (pc \in {"outer", "inner"} /\ ~obs.short /\ obs.frames = 0
            /\ obs.failure = "none") =>
           (/\ FbIsValid(m_frameBuffer)
            /\ FbIsEmpty(m_frameBuffer)
            /\ FbFirstFrame(m_frameBuffer) = kUnknownFrameIndex)
    /\ (pc = "done" /\ ret.kind = "seek" /\ ret.ok /\ ~obs.short) =>
           m_frameBuffer = FbResetUnknown
    /\ (pc = "done" /\ ret.kind = "seek" /\ ~ret.ok) => ~FbIsValid(m_frameBuffer)
    /\ (ReadReturned /\ obs.failure = "seek") =>
           (/\ ~FbIsValid(m_frameBuffer)
            /\ RangeEmpty(ret.range)
            /\ loc.out = Untouched(RangeLength(loc.W))
            /\ loc.outPos = 0)

\* a read of [2, 4) whose backend seek failed has returned
C25_Witness ==
    /\ ReadReturned
    /\ obs.failure = "seek"
    /\ loc.W = <<2, 4>>
    /\ obs.calls = <<"avcodec_flush_buffers", "av_seek_frame">>

\* the decoder holds a frame that the receive loop takes next
FrameReady == pc = "inner" /\ AvcodecReceiveFrame(av, FALSE)[1] = "frame"
\* the frame index range of that frame
NextDecodedRange ==
    LET f == AvcodecReceiveFrame(av, FALSE)[2][1]
    IN  RangeForward(ConvertStreamTimeToFrameIndex(avFile.stream, f.pts), f.nb_samples)
\* the locals once an unknown readFrameIndex is set to the frame's start
LocalsAtFrame ==
    IF loc.rfi = kUnknownFrameIndex
    THEN [loc EXCEPT !.rfi = RangeStart(NextDecodedRange)]
    ELSE loc
\* the frames to take back: what of [decoded start, readFrameIndex) has been
\* consumed by this call
RewindRange ==
    <<Max2(RangeStart(NextDecodedRange), loc.consumeStart), loc.rfi>>
\* the next frame starts before readFrameIndex and overlaps consumed frames
RewindCase ==
    /\ FrameReady
    /\ loc.rfi # kUnknownFrameIndex
    /\ RangeStart(NextDecodedRange) < loc.rfi
    /\ RangeStart(RewindRange) < RangeEnd(RewindRange)

\* C26: a decoded frame that starts before readFrameIndex takes the frames of
\* rewind = overlap /\ consumed back from the buffer's tail first and the rest
\* from the output; both counts add up to the length of rewind, the writable
\* range then starts at rewind's start and keeps its end, and readFrameIndex is
\* the frame's start
C26_Rewind ==
    RewindCase =>
        LET rw == RewindOverlap(m_frameBuffer, LocalsAtFrame, RangeStart(NextDecodedRange))
            n == RangeLength(RewindRange)
            fromBuffer == Len(m_frameBuffer.buf) - Len(rw[1].buf)
            fromOutput == loc.outPos - rw[2].outPos
        IN  /\ fromBuffer = Min2(n, Len(m_frameBuffer.buf))
            /\ rw[1].buf = SubSeq(m_frameBuffer.buf, 1, Len(m_frameBuffer.buf) - fromBuffer)
            /\ fromOutput = n - fromBuffer
            /\ RangeStart(rw[2].wr) = RangeStart(RewindRange)
            /\ RangeEnd(rw[2].wr) = RangeEnd(loc.wr)
            /\ rw[2].rfi = RangeStart(NextDecodedRange)

\* a frame is about to be received whose rewind of two frames takes one frame
\* from the buffer and one from the output
C26_Witness ==
    /\ RewindCase
    /\ RangeLength(RewindRange) = 2
    /\ Len(m_frameBuffer.buf) = 1
    /\ loc.outPos = 2

\* the locals when the 1st step runs: after the rewind
LocalsAtFill ==
    RewindOverlap(m_frameBuffer, LocalsAtFrame, RangeStart(NextDecodedRange))[2]
\* a frame is about to be received while the writable range starts before
\* readFrameIndex
MissingCase ==
    /\ FrameReady
    /\ RangeStart(LocalsAtFill.wr) < LocalsAtFill.rfi

C28_OutputContent ==
    ReadReturned =>
        \A i \in RangeStart(ret.range)..(RangeEnd(ret.range) - 1) :
            loc.out[i - RangeStart(loc.W) + 1] \in {0, SampleVal(i)}

\* a read of [0, 2) has returned both frames, the second of which is the
\* decoded sample of index 0
C28_Witness ==
    /\ ReadReturned
    /\ loc.W = <<0, 2>>
    /\ ret.range = <<0, 2>>
    /\ loc.out[2] = SampleVal(0)

\* a read has returned its whole range and left decoded frames in a valid buffer
FullReadWithRemainder ==
    /\ ReadReturned
    /\ ret.range = loc.W
    /\ FbIsValid(m_frameBuffer)
    /\ ~FbIsEmpty(m_frameBuffer)

\* C29: when a read returns its whole range with a valid buffer, the decoded
\* frames from W.end on are buffered and the buffered range starts at W.end,
\* so that a read from W.end on is served without a backend seek
C29_RemainderBuffered ==
    FullReadWithRemainder =>
        /\ FbFirstFrame(m_frameBuffer) = RangeEnd(loc.W)
        /\ ShortSeek(m_frameBuffer, RangeEnd(loc.W))
        /\ \A j \in 1..Len(m_frameBuffer.buf) :
               m_frameBuffer.buf[j] = SampleVal(RangeEnd(loc.W) + j - 1)

\* [0, 1) was read, the packet gave the frames [0, 2) and [2, 4), and the
\* buffer starts at 2: the frame 1 is lost
C29_Witness ==
    /\ FullReadWithRemainder
    /\ loc.W = <<0, 1>>
    /\ obs.frames = 2
    /\ FbFirstFrame(m_frameBuffer) = 2
    /\ m_frameBuffer.buf = <<SampleVal(2), SampleVal(3)>>

\* the packets of the selected stream that the demuxer has not yet delivered
PacketsAhead ==
    {k \in av.demux..Len(avFile.pkts) :
        avFile.pkts[k].stream_index = avFile.stream.index}

\* C30: readNextPacket delivers the next packet of the selected stream and
\* skips the packets of other streams before it; at the demuxer's end it
\* delivers an empty packet of size 0 with the selected stream's index and a
\* frame index that is not the invalid sentinel; on a read error it returns
\* the invalid sentinel, the caller invalidates the buffer, sends nothing to
\* the decoder and the read ends
C30_ReadNextPacket ==
    [][(pc = "outer" /\ LoopContinues(m_frameBuffer, loc.nextPkt, loc.wr)
            /\ loc.nextPkt = <<>>) =>
          \/ /\ obs'.failure = "read"
             /\ ReadNextPacket(avFile, av.demux, FbFirstFrame(m_frameBuffer), FALSE).idx
                    = kInvalidFrameIndex
             /\ ~FbIsValid(m_frameBuffer')
             /\ obs'.sent = <<>>
             /\ av'.decQ = av.decQ
             /\ av'.draining = av.draining
             /\ pc' = "done"
          \/ /\ obs'.failure # "read"
             /\ obs'.read
             /\ Len(obs'.sent) = 1
             /\ obs'.sent[1].stream_index = avFile.stream.index
             /\ ReadNextPacket(avFile, av.demux, FbFirstFrame(m_frameBuffer), TRUE).idx
                    # kInvalidFrameIndex
             /\ IF PacketsAhead = {}
                THEN /\ obs'.sent[1].size = 0
                     /\ obs'.sent[1].frames = <<>>
                     /\ ReadNextPacket(avFile, av.demux, FbFirstFrame(m_frameBuffer),
                                       TRUE).idx = FbFirstFrame(m_frameBuffer)
                ELSE \E k \in PacketsAhead :
                        /\ \A j \in PacketsAhead : k <= j
                        /\ obs'.sent[1] = avFile.pkts[k]
                        /\ av'.demux = k + 1]_vars

\* the first packet of the file belongs to another stream; it was skipped and
\* the second packet was sent to the decoder
C30_Witness ==
    /\ pc = "inner"
    /\ avFile.pkts[1].stream_index # avFile.stream.index
    /\ obs.read
    /\ obs.sent = <<avFile.pkts[2]>>
    /\ av.demux = 3

\* the place of a handle in the order scratch frames, resampler, codec
\* context, input format context
ReleaseRank(h) ==
    CASE h \in {"resampledFrame", "decodedFrame"} -> 1
      [] h = "swr" -> 2
      [] h = "codecCtx" -> 3
      [] h = "fmtCtx" -> 4

\* C31: close releases exactly the handles the session owns, each once, in the
\* order scratch frames, resampler, codec context, input format context;
\* after close every handle is null, and a second close (the destructor's)
\* releases nothing
C31_CloseOrder ==
    [][(pc' \in {"closed", "destroyed"} /\ pc' # pc) =>
          LET n == Len(obs.calls)
              new == SubSeq(obs'.calls, n + 1, Len(obs'.calls))
          IN  /\ SubSeq(obs'.calls, 1, n) = obs.calls
              /\ {new[i] : i \in 1..Len(new)} = OwnedHandles
              /\ \A i, j \in 1..Len(new) :
                    i < j => /\ new[i] # new[j]
                             /\ ReleaseRank(new[i]) <= ReleaseRank(new[j])
              /\ OwnedHandles' = {}
              /\ pc = "closed" => new = <<>>]_vars

\* a session with a resampler was opened, closed and destroyed: the five
\* handles were released once, in the order of close
C31_Witness ==
    /\ pc = "destroyed"
    /\ Len(obs.calls) = 5
    /\ obs.calls[3] = "swr"
    /\ obs.calls[4] = "codecCtx"
    /\ obs.calls[5] = "fmtCtx"
    /\ OwnedHandles = {}

\* C32: after a successful open the resampler and its scratch frame exist
\* exactly if the stream's channel layout differs from the default layout of
\* its channel count or the decoder's sample format is not float32; the
\* published channel count and sample rate are the stream's, whatever channel
\* count was requested
C32_ResamplerIffNeeded ==
    (pc = "idle" /\ src.openResult = "Succeeded") =>
        LET st == avFile.stream
            differs == \/ GetStreamChannelLayout(st)
                              # av_get_default_channel_layout(st.channels)
                       \/ st.sample_fmt # "FLT"
        IN  /\ src.swr <=> differs
            /\ src.resampledFrame <=> differs
            /\ src.channelCount = st.channels
            /\ src.sampleRate = st.sample_rate

\* a mono stream of float32 samples with the mono layout was opened with two
\* channels requested: no resampler, one channel published
C32_Witness ==
    /\ pc = "idle"
    /\ src.openResult = "Succeeded"
    /\ avFile.stream.channels = 1
    /\ avFile.stream.sample_fmt = "FLT"
    /\ avFile.stream.channel_layout = 4
    /\ src.requestChannelLayout = av_get_default_channel_layout(2)
    /\ ~src.swr
    /\ src.channelCount = 1

\* C33: when readSampleFramesClamped returns after the decode loop was
\* entered, no packet is retained
C33_NoPacketRetained ==
    (pc = "done" /\ ret.kind = "read" /\ (obs.read \/ obs.sent # <<>> \/ obs.frames > 0))
        => loc.nextPkt = <<>>

\* the decoder answered EAGAIN to a send, the packet was kept, and the
\* following avcodec_receive_frame failed: the read has returned with the
\* packet still held
C33_Witness ==
    /\ pc = "done"
    /\ ret.kind = "read"
    /\ loc.nextPkt # <<>>
    /\ obs.res = "again"
    /\ ~FbIsValid(m_frameBuffer)
    /\ obs.failure = "receive"

C35_ReadTerminates ==
    (pc \in {"outer", "inner"})
        ~> (/\ pc = "done"
            /\ ret.kind = "read"
            /\ (RangeEmpty(loc.wr) \/ ~FbIsValid(m_frameBuffer)))

\* a read had to send the same packet again after EAGAIN, went on to the end
\* of the stream and returned after the decoder had reported EOF
C35_Witness ==
    /\ pc = "done"
    /\ ret.kind = "read"
    /\ obs.failure = "eof"
    /\ av.draining
    /\ ~FbIsValid(m_frameBuffer)

\* C36: between read calls a valid buffer that holds frames holds only frames
\* of the stream: its buffered range lies in [0, total_frames)
C36_BufferedInStream ==
    (pc \in {"idle", "done"} /\ FbIsValid(m_frameBuffer) /\ ~FbIsEmpty(m_frameBuffer))
        => RangeWithin(FbBufferedFrameRange(m_frameBuffer), FrameIndexRange)

\* a read has returned after a decoded frame ran over the end of the stream:
\* the buffer holds the frames up to the last frame of the stream
C36_Witness ==
    /\ pc = "done"
    /\ ret.kind = "read"
    /\ obs.beyond
    /\ FbIsValid(m_frameBuffer)
    /\ ~FbIsEmpty(m_frameBuffer)
    /\ RangeEnd(FbBufferedFrameRange(m_frameBuffer)) = RangeEnd(FrameIndexRange)

\* C37: at every point of a read call the output position equals
\* writable.start - W.start and lies in [0, length of W], and nothing is
\* written outside the caller's buffer
C37_OutputPosition ==
    (pc \in {"outer", "inner"} \/ (pc = "done" /\ ret.kind = "read")) =>
        /\ loc.outPos = RangeStart(loc.wr) - RangeStart(loc.W)
        /\ 0 <= loc.outPos
        /\ loc.outPos <= RangeLength(loc.W)
        /\ ~loc.oob

\* a decoded frame overlapped frames that were partly handed out and partly
\* buffered: the writable range was reopened by the whole overlap, the output
\* position stayed behind it
C37_Witness ==
    /\ pc \in {"outer", "inner"}
    /\ "rewind" \in loc.warnings
    /\ loc.outPos > RangeStart(loc.wr) - RangeStart(loc.W)

\* the locals after each step of the loop body for the frame that is about
\* to be received: readFrameIndex set, rewind, 1st step, 3rd step and, unless
\* the frame was discarded as a whole, the two halves of the 4th step
FrameStages ==
    LET f == AvcodecReceiveFrame(av, FALSE)[2][1]
        rw == LocalsAtFill
        l1 == FillMissing(rw)
        ex == DiscardExcessive(l1, NextDecodedRange)
        l3 == FillSkipped(ex[1], ex[2])
        cp == CopyDecoded(l3, ex[2], ResampleDecodedAVFrame(src, f, TRUE)[2], ex[3])
    IN  {LocalsAtFrame, rw, l1, ex[1]}
            \cup (IF RangeStart(l1.wr) > l1.rfi /\ RangeEmpty(ex[2])
                  THEN {} ELSE {l3, cp[1]})

\* the writable range of the locals l is forward or empty and a tail of W
WritableInsideW(l) ==
    /\ RangeStart(l.W) <= RangeStart(l.wr)
    /\ RangeStart(l.wr) <= RangeEnd(l.wr)
    /\ RangeEnd(l.wr) = RangeEnd(l.W)

C39_SeekIndexInRange ==
    ((JustAdjusted /\ ~obs.short) \/ pc = "crashed") =>
        /\ pc # "crashed"
        /\ ~obs.divZero
        /\ kMinFrameIndex <= obs.target
        /\ obs.target <= obs.failPos

\* the stream's parameters give a frame size of 2, the codec context one of
\* 0: the remainder by the codec context's frame size was taken by zero and
\* the division trapped
C39_Witness ==
    /\ avFile.stream.frame_size > 0
    /\ avFile.stream.ctx_frame_size = 0
    /\ obs.divZero
    /\ pc = "crashed"

\* the decoder will answer EOF to the next avcodec_receive_frame
EofReady == pc = "inner" /\ AvcodecReceiveFrame(av, FALSE)[1] = "EOF"

====
